---- MODULE Spec2Model ----
(***************************************************************************)
(* The ADL endpoints of scolaia-desk (app/api/v1/endpoints/adl.py): the    *)
(* dotted-path navigator get_value_from_path, the value lookup, the four   *)
(* category listings and the download, over the settings table.            *)
(*                                                                         *)
(* A Python str is a sequence of one-character strings, so that re.split,  *)
(* str.startswith, "in" and "+" are computed character by character.       *)
(* A parsed YAML value is a record [t, s, items]:                          *)
(*   t = "map"  : items is the dict's (key, value) pairs in dict order     *)
(*   t = "seq"  : items is the list's elements                             *)
(*   t = "str"  : s is the scalar's text                                   *)
(*   t = "null" : None                                                     *)
(***************************************************************************)
EXTENDS Integers, Sequences, FiniteSets, TLC

VARIABLES settings, response, users, now, mailbox, poll, message_history, reg

\* the state of the chat routes
chatvars == <<poll, message_history>>

vars == <<settings, response, users, now, mailbox, chatvars, reg>>

(***************************************************************************)
(* Bounds of the model.                                                    *)
(***************************************************************************)
\* longest request path, in characters
MaxPathLen == 6
\* deepest nesting of the navigator's documents
MaxDepth == 3
\* most entries of a category
MaxEntries == 2

\* the clock stops at MaxNow hours
MaxNow == 48

\* the reset links a run mails
MaxTokens == 2
\* longest history of a WebSocket connection, in messages
MaxHistory == 4
\* most rows of the users table under concurrent registrations
MaxUsers == 3
\* most rows of the settings table when records are created freely
MaxSettings == 3

(***************************************************************************)
(* Python str operations.                                                  *)
(***************************************************************************)
RECURSIVE Contains(_, _)
\* c in s
Contains(s, c) ==
    IF s = <<>> THEN FALSE
    ELSE IF Head(s) = c THEN TRUE
    ELSE Contains(Tail(s), c)

\* StartsWith answering False: every segment is complete as soon as it is read
StartsWith_Never(s, prefix) == FALSE

\* s.startswith(prefix)
StartsWith(s, prefix) ==
    /\ Len(prefix) <= Len(s)
    /\ SubSeq(s, 1, Len(prefix)) = prefix

\* IsSplitDot with the lookbehind written (?<=[^/]), which needs a character
\* before the dot
IsSplitDot_NeedsChar(path, i) ==
    /\ path[i] = "."
    /\ i > 1
    /\ path[i - 1] # "/"

\* IsSplitDot without the lookbehind: every dot splits
IsSplitDot_EveryDot(path, i) == path[i] = "."

\* the regular expression (?<!/)\. matches at index i
IsSplitDot(path, i) ==
    /\ path[i] = "."
    /\ (i = 1 \/ path[i - 1] # "/")

RECURSIVE ReSplitFrom(_, _, _)
ReSplitFrom(path, i, cur) ==
    IF i > Len(path) THEN <<cur>>
    ELSE IF IsSplitDot(path, i)
         THEN <<cur>> \o ReSplitFrom(path, i + 1, <<>>)
         ELSE ReSplitFrom(path, i + 1, Append(cur, path[i]))

\* re.split(r'(?<!/)\.', path)
ReSplit(path) == ReSplitFrom(path, 1, <<>>)

RECURSIVE SegmentLoop(_, _, _, _)
\* the for loop of get_value_from_path over the tokens still to read, with
\* the locals parts and current_path, and the flush after the loop
SegmentLoop(path, tokens, parts, current_path) ==
    IF tokens = <<>>
    THEN IF current_path # <<>> THEN Append(parts, current_path) ELSE parts
    ELSE LET part == Head(tokens)
             cp == IF current_path # <<>> THEN current_path \o <<".">> \o part
                   ELSE IF Contains(part, "/") THEN part
                   ELSE current_path
             ps == IF current_path = <<>> /\ ~Contains(part, "/")
                   THEN Append(parts, part)
                   ELSE parts
             complete == cp # <<>> /\ ~StartsWith(path, cp \o <<".">>)
         IN  SegmentLoop(path, Tail(tokens),
                         IF complete THEN Append(ps, cp) ELSE ps,
                         IF complete THEN <<>> ELSE cp)

\* the list parts that get_value_from_path builds from path
Segments(path) == SegmentLoop(path, ReSplit(path), <<>>, <<>>)

(***************************************************************************)
(* Parsed YAML values and the outcome of evaluating a Python expression.   *)
(***************************************************************************)
Null == [t |-> "null", s |-> <<>>, items |-> <<>>]
StrVal(s) == [t |-> "str", s |-> s, items |-> <<>>]
SeqVal(xs) == [t |-> "seq", s |-> <<>>, items |-> xs]
MapVal(kvs) == [t |-> "map", s |-> <<>>, items |-> kvs]

Ok(v) == [ok |-> TRUE, val |-> v, exc |-> "none"]
Raise(e) == [ok |-> FALSE, val |-> Null, exc |-> e]

\* the keys of a dict, in dict order
MapKeys(m) == [i \in 1..Len(m.items) |-> m.items[i].k]

HasKey(m, key) == \E i \in 1..Len(m.items) : m.items[i].k = key

MapGet(m, key) == m.items[CHOOSE i \in 1..Len(m.items) : m.items[i].k = key].v

\* current[part] with part a str: a dict raises KeyError for a missing key;
\* a list, a str and None raise TypeError
Subscript(current, part) ==
    IF current.t = "map"
    THEN IF HasKey(current, part) THEN Ok(MapGet(current, part))
         ELSE Raise("KeyError")
    ELSE Raise("TypeError")

RECURSIVE Navigate(_, _)
\* for part in parts: current = current[part]
Navigate(current, parts) ==
    IF parts = <<>> THEN Ok(current)
    ELSE LET r == Subscript(current, Head(parts))
         IN  IF r.ok THEN Navigate(r.val, Tail(parts)) ELSE r

\* NavigatorCaught with "except KeyError" alone
NavigatorCaught_KeyErrorOnly == {"KeyError"}

\* the exceptions get_value_from_path turns into HTTPException(404)
NavigatorCaught == {"KeyError", "TypeError"}

get_value_from_path(data, path) ==
    LET r == Navigate(data, Segments(path))
    IN  IF r.ok THEN r
        ELSE IF r.exc \in NavigatorCaught THEN Raise("HTTP404")
        ELSE r

(***************************************************************************)
(* String literals of the source.                                          *)
(***************************************************************************)
K_assistant_instructions == <<"a", "s", "s", "i", "s", "t", "a", "n", "t", "_", "i", "n", "s", "t", "r", "u", "c", "t", "i", "o", "n", "s">>
K_tools == <<"t", "o", "o", "l", "s">>
K_commands == <<"c", "o", "m", "m", "a", "n", "d", "s">>
K_options == <<"o", "p", "t", "i", "o", "n", "s">>
K_decorators == <<"d", "e", "c", "o", "r", "a", "t", "o", "r", "s">>
K_workflows == <<"w", "o", "r", "k", "f", "l", "o", "w", "s">>
K_display_name == <<"d", "i", "s", "p", "l", "a", "y", "_", "n", "a", "m", "e">>
K_description == <<"d", "e", "s", "c", "r", "i", "p", "t", "i", "o", "n">>
K_sequence == <<"s", "e", "q", "u", "e", "n", "c", "e">>
K_metadata == <<"m", "e", "t", "a", "d", "a", "t", "a">>
K_title == <<"t", "i", "t", "l", "e">>
S_assistant == <<"a", "s", "s", "i", "s", "t", "a", "n", "t">>
S_yaml_suffix == <<".", "y", "a", "m", "l">>
S_no_description == <<"N", "o", " ", "d", "e", "s", "c", "r", "i", "p", "t", "i", "o", "n", " ", "a", "v", "a", "i", "l", "a", "b", "l", "e">>
S_workflow_prefix == <<"W", "o", "r", "k", "f", "l", "o", "w", " ">>
S_true == <<"t", "r", "u", "e">>
K_id == <<"i", "d">>

\* the literal paths the listings pass to get_value_from_path
PATH_commands == K_assistant_instructions \o <<".">> \o K_tools \o <<".">> \o K_commands
PATH_options == K_assistant_instructions \o <<".">> \o K_tools \o <<".">> \o K_options
PATH_decorators == K_assistant_instructions \o <<".">> \o K_tools \o <<".">> \o K_decorators
PATH_workflows == K_assistant_instructions \o <<".">> \o K_tools \o <<".">> \o K_workflows

\* the key the ADL endpoints look the record up by
ADL_KEY == "Assistant ADL"

\* the category under which the chat reads the record
ADL_CATEGORY == "System"

(***************************************************************************)
(* The settings table.  A row is [category, key, value, is_encrypted]; its *)
(* id is its position.  A stored text is [kind, doc, enc]:                 *)
(*   kind = "empty" : the empty string                                     *)
(*   kind = "bad"   : a text yaml.safe_load rejects                        *)
(*   kind = "yaml"  : a text yaml.safe_load parses to doc                  *)
(*   enc            : how many times the text was Fernet-encrypted         *)
(***************************************************************************)
EmptyText == [kind |-> "empty", doc |-> Null, enc |-> 0]
BadYaml == [kind |-> "bad", doc |-> Null, enc |-> 0]
YamlText(d) == [kind |-> "yaml", doc |-> d, enc |-> 0]

\* a Fernet token is one plain YAML scalar
S_token == <<"g", "A", "A", "A", "A", "A">>

\* bool(value) of a str
Truthy(text) == text.enc > 0 \/ text.kind # "empty"

encrypt_setting(text) == [text EXCEPT !.enc = @ + 1]

\* decrypt_setting(text): ValueError for a text that is no token
decrypt_setting(text) ==
    IF text.enc > 0 THEN Ok([text EXCEPT !.enc = @ - 1]) ELSE Raise("ValueError")

\* yaml.safe_load(text)
safe_load(text) ==
    IF text.enc > 0 THEN Ok(StrVal(S_token))
    ELSE IF text.kind = "bad" THEN Raise("YAMLError")
    ELSE IF text.kind = "empty" THEN Ok(Null)
    ELSE Ok(text.doc)

\* setting.get_multi(db): the rows of the table
get_multi(rows) == rows

\* next((s for s in settings if s.key == 'Assistant ADL'), None): the row's
\* position, 0 for None
adl_setting(rows) ==
    LET idx == {i \in 1..Len(rows) : rows[i].key = ADL_KEY}
    IN  IF idx = {} THEN 0
        ELSE CHOOSE i \in idx : \A j \in idx : i <= j

\* not adl_setting or not adl_setting.value
AdlMissing(rows) ==
    \/ adl_setting(rows) = 0
    \/ ~Truthy(rows[adl_setting(rows)].value)

(***************************************************************************)
(* Responses.  Every handler ends in one response; response is the last    *)
(* one the server produced.                                                *)
(***************************************************************************)
Resp(ep, status, detail, body, path, format) ==
    [ep |-> ep, status |-> status, detail |-> detail, body |-> body,
     path |-> path, format |-> format,
     content |-> EmptyText, filename |-> <<>>, nocache |-> FALSE]

NoResponse == Resp("none", 0, "", Null, <<>>, "")

\* how FastAPI answers the outcome of a handler body whose only except
\* clause is "except yaml.YAMLError": the HTTPException of the navigator
\* passes through, any other exception is an unhandled server error
Finish(ep, r, path, format) ==
    IF r.ok THEN Resp(ep, 200, "", r.val, path, format)
    ELSE IF r.exc = "YAMLError"
         THEN Resp(ep, 500, "Error parsing ADL configuration", Null, path, format)
    ELSE IF r.exc = "HTTP404"
         THEN Resp(ep, 404, "Path not found in ADL configuration", Null, path, format)
    ELSE Resp(ep, 500, "Internal Server Error", Null, path, format)

NotFoundConfig(ep, path, format) ==
    Resp(ep, 404, "ADL configuration not found", Null, path, format)

(***************************************************************************)
(* The dependencies of app/api/deps.py.  A caller is the request's token   *)
(* and the user row it names.                                              *)
(***************************************************************************)
Callers ==
    [token : {"none", "invalid"}, exists : {FALSE}, is_active : {FALSE}, is_admin : {FALSE}]
    \cup [token : {"valid"}, exists : {FALSE}, is_active : {FALSE}, is_admin : {FALSE}]
    \cup [token : {"valid"}, exists : {TRUE}, is_active : BOOLEAN, is_admin : BOOLEAN]

AuthOk == [status |-> 200, detail |-> ""]

get_current_user(caller) ==
    IF caller.token = "none" THEN [status |-> 401, detail |-> "Not authenticated"]
    ELSE IF caller.token = "invalid"
         THEN [status |-> 403, detail |-> "Could not validate credentials"]
    ELSE IF ~caller.exists THEN [status |-> 404, detail |-> "User not found"]
    ELSE AuthOk

get_current_active_user(caller) ==
    IF get_current_user(caller) # AuthOk THEN get_current_user(caller)
    ELSE IF ~caller.is_active THEN [status |-> 400, detail |-> "Inactive user"]
    ELSE AuthOk

get_current_active_superuser(caller) ==
    IF get_current_active_user(caller) # AuthOk THEN get_current_active_user(caller)
    ELSE IF ~caller.is_admin
         THEN [status |-> 400, detail |-> "The user doesn't have enough privileges"]
    ELSE AuthOk

\* the response of a request whose dependency raised: the handler, with its
\* path and format, is never entered
Denied(ep, auth, path, format) == Resp(ep, auth.status, auth.detail, Null, <<>>, "")

(***************************************************************************)
(* GET /value/{path}                                                       *)
(***************************************************************************)
get_adl_value(rows, caller, path) ==
    IF get_current_active_superuser(caller) # AuthOk
    THEN Denied("get_adl_value", get_current_active_superuser(caller), path, "")
    ELSE IF AdlMissing(get_multi(rows))
    THEN NotFoundConfig("get_adl_value", path, "")
    ELSE LET adl_data == safe_load(get_multi(rows)[adl_setting(get_multi(rows))].value)
             result == IF adl_data.ok THEN get_value_from_path(adl_data.val, path)
                       ELSE adl_data
         IN  Finish("get_adl_value", result, path, "")

(***************************************************************************)
(* Python dict and list operations used by the listings.                   *)
(***************************************************************************)
\* list(d.keys()) of a dict
KeysList(d) == SeqVal([i \in 1..Len(d.items) |-> StrVal(d.items[i].k)])

\* v.keys(): only a dict has the attribute
py_keys(v) == IF v.t = "map" THEN Ok(KeysList(v)) ELSE Raise("AttributeError")

\* v.get(key, default): only a dict has the attribute
py_get(v, key, default) ==
    IF v.t # "map" THEN Raise("AttributeError")
    ELSE IF HasKey(v, key) THEN Ok(MapGet(v, key))
    ELSE Ok(default)

\* the first exception among the outcomes rs, or rs itself when none failed
FirstFailure(rs) ==
    LET bad == {i \in 1..Len(rs) : ~rs[i].ok}
    IN  IF bad = {} THEN Ok(Null)
        ELSE rs[CHOOSE i \in bad : \A j \in bad : i <= j]

\* {name: ... for name, v in d.items()}, rs the outcomes of the value
\* expression for the items in order: only a dict has the attribute items
DictComp(d, rs) ==
    IF d.t # "map" THEN Raise("AttributeError")
    ELSE IF ~FirstFailure(rs).ok THEN FirstFailure(rs)
    ELSE Ok(MapVal([i \in 1..Len(rs) |-> [k |-> d.items[i].k, v |-> rs[i].val]]))

\* [... for i, x in enumerate(xs)] of a list, rs the outcomes of the element
\* expression for the elements in order
ListComp(rs) ==
    IF ~FirstFailure(rs).ok THEN FirstFailure(rs)
    ELSE Ok(SeqVal([i \in 1..Len(rs) |-> rs[i].val]))

\* a dict literal whose values are the outcomes of its value expressions,
\* evaluated in order
DictOf(keys, rs) ==
    IF ~FirstFailure(rs).ok THEN FirstFailure(rs)
    ELSE Ok(MapVal([i \in 1..Len(keys) |-> [k |-> keys[i], v |-> rs[i].val]]))

Digits == <<"0", "1", "2", "3", "4", "5", "6", "7", "8", "9">>

RECURSIVE IntToStr(_)
\* str(i) of an int i >= 0
IntToStr(i) ==
    IF i < 10 THEN <<Digits[i + 1]>>
    ELSE Append(IntToStr(i \div 10), Digits[(i % 10) + 1])

IntVal(i) == [t |-> "int", s |-> IntToStr(i), items |-> <<>>]

(***************************************************************************)
(* GET /commands, /options, /decorators                                    *)
(***************************************************************************)
\* {"display_name": cmd["display_name"], "description": cmd["description"]}
commands_simple_entry(name, cmd) ==
    DictOf(<<K_display_name, K_description>>,
           <<Subscript(cmd, K_display_name), Subscript(cmd, K_description)>>)

\* {"description": opt.get("description", "No description available")}
options_simple_entry(name, opt) ==
    DictOf(<<K_description>>, <<py_get(opt, K_description, StrVal(S_no_description))>>)

\* commands_projection with format=names answering the display names, as
\* list_workflows does
commands_projection_DisplayNames(commands, format) ==
    IF format = "names"
    THEN LET r == DictComp(commands,
                           [i \in 1..Len(commands.items) |->
                               py_get(commands.items[i].v, K_display_name, Null)])
         IN  IF r.ok THEN Ok(SeqVal([i \in 1..Len(r.val.items) |-> r.val.items[i].v]))
             ELSE r
    ELSE IF format = "simple"
    THEN DictComp(commands,
                  [i \in 1..Len(commands.items) |->
                      commands_simple_entry(commands.items[i].k, commands.items[i].v)])
    ELSE Ok(commands)

\* the branches on format of list_commands
commands_projection(commands, format) ==
    IF format = "names" THEN py_keys(commands)
    ELSE IF format = "simple"
    THEN DictComp(commands,
                  [i \in 1..Len(commands.items) |->
                      commands_simple_entry(commands.items[i].k, commands.items[i].v)])
    ELSE Ok(commands)

\* the branches on format of list_options and of list_decorators
options_projection(options, format) ==
    IF format = "names" THEN py_keys(options)
    ELSE IF format = "simple"
    THEN DictComp(options,
                  [i \in 1..Len(options.items) |->
                      options_simple_entry(options.items[i].k, options.items[i].v)])
    ELSE Ok(options)

list_commands(rows, caller, format) ==
    IF get_current_active_user(caller) # AuthOk
    THEN Denied("list_commands", get_current_active_user(caller), PATH_commands, format)
    ELSE IF AdlMissing(get_multi(rows))
    THEN NotFoundConfig("list_commands", PATH_commands, format)
    ELSE LET adl_data == safe_load(get_multi(rows)[adl_setting(get_multi(rows))].value)
             commands == IF adl_data.ok
                         THEN get_value_from_path(adl_data.val, PATH_commands)
                         ELSE adl_data
             result == IF commands.ok THEN commands_projection(commands.val, format)
                       ELSE commands
         IN  Finish("list_commands", result, PATH_commands, format)

\* options_like with the inner handler written "except Exception": every
\* failure to get the options answers the empty dict
options_like_ExceptAll(ep, path, rows, caller, format) ==
    IF get_current_active_user(caller) # AuthOk
    THEN Denied(ep, get_current_active_user(caller), path, format)
    ELSE IF AdlMissing(get_multi(rows))
    THEN NotFoundConfig(ep, path, format)
    ELSE LET adl_data == safe_load(get_multi(rows)[adl_setting(get_multi(rows))].value)
             options == IF adl_data.ok THEN get_value_from_path(adl_data.val, path)
                        ELSE adl_data
             result == IF options.ok THEN options_projection(options.val, format)
                       ELSE Ok(MapVal(<<>>))
         IN  Finish(ep, result, path, format)

\* list_options and list_decorators: the same body over another path; the
\* inner "except HTTPException" answers the empty dict
options_like(ep, path, rows, caller, format) ==
    IF get_current_active_user(caller) # AuthOk
    THEN Denied(ep, get_current_active_user(caller), path, format)
    ELSE IF AdlMissing(get_multi(rows))
    THEN NotFoundConfig(ep, path, format)
    ELSE LET adl_data == safe_load(get_multi(rows)[adl_setting(get_multi(rows))].value)
             options == IF adl_data.ok THEN get_value_from_path(adl_data.val, path)
                        ELSE adl_data
             result == IF options.ok THEN options_projection(options.val, format)
                       ELSE IF options.exc = "HTTP404" THEN Ok(MapVal(<<>>))
                       ELSE options
         IN  Finish(ep, result, path, format)

list_options(rows, caller, format) ==
    options_like("list_options", PATH_options, rows, caller, format)

list_decorators(rows, caller, format) ==
    options_like("list_decorators", PATH_decorators, rows, caller, format)

(***************************************************************************)
(* GET /workflows                                                          *)
(***************************************************************************)
\* the record built for one (key, workflow) item of a workflows dict
workflow_from_item(key, workflow) ==
    DictOf(<<K_id, K_display_name, K_description, K_sequence>>,
           <<Ok(StrVal(key)),
             py_get(workflow, K_display_name, StrVal(key)),
             py_get(workflow, K_description, StrVal(S_no_description)),
             py_get(workflow, K_sequence, SeqVal(<<>>))>>)

\* normalize_workflows without the "elif not isinstance(workflows, list)"
\* branch: enumerate(None) raises TypeError, the characters of a str have no get
normalize_workflows_NoElif(workflows) ==
    IF workflows.t = "map"
    THEN LET rs == [i \in 1..Len(workflows.items) |->
                       workflow_from_item(workflows.items[i].k, workflows.items[i].v)]
         IN  IF ~FirstFailure(rs).ok THEN FirstFailure(rs)
             ELSE Ok(SeqVal([i \in 1..Len(rs) |-> rs[i].val]))
    ELSE IF workflows.t = "null" THEN Raise("TypeError")
    ELSE IF workflows.t = "str" /\ workflows.s # <<>> THEN Raise("AttributeError")
    ELSE Ok(SeqVal(workflows.items))

\* the conversion of the resolved value to a list
normalize_workflows(workflows) ==
    IF workflows.t = "map"
    THEN LET rs == [i \in 1..Len(workflows.items) |->
                       workflow_from_item(workflows.items[i].k, workflows.items[i].v)]
         IN  IF ~FirstFailure(rs).ok THEN FirstFailure(rs)
             ELSE Ok(SeqVal([i \in 1..Len(rs) |-> rs[i].val]))
    ELSE IF workflows.t # "seq" THEN Ok(SeqVal(<<>>))
    ELSE Ok(workflows)

\* workflow.get("display_name")
workflow_name(i, workflow) == py_get(workflow, K_display_name, Null)

workflow_simple(i, workflow) ==
    DictOf(<<K_id, K_display_name, K_description>>,
           <<Ok(IntVal(i)),
             py_get(workflow, K_display_name, StrVal(S_workflow_prefix \o IntToStr(i))),
             py_get(workflow, K_description, StrVal(S_no_description))>>)

\* workflow_full giving the entry as it is stored, with the position as id
workflow_full_AsStored(i, workflow) ==
    IF workflow.t # "map" THEN Raise("AttributeError")
    ELSE Ok(MapVal(<<[k |-> K_id, v |-> IntVal(i)]>> \o workflow.items))

workflow_full(i, workflow) ==
    DictOf(<<K_id, K_display_name, K_description, K_sequence>>,
           <<Ok(IntVal(i)),
             py_get(workflow, K_display_name, StrVal(S_workflow_prefix \o IntToStr(i))),
             py_get(workflow, K_description, StrVal(S_no_description)),
             py_get(workflow, K_sequence, SeqVal(<<>>))>>)

\* the branches on format of list_workflows, over the normalized list
workflows_projection(workflows, format) ==
    IF format = "names"
    THEN ListComp([i \in 1..Len(workflows.items) |-> workflow_name(i - 1, workflows.items[i])])
    ELSE IF format = "simple"
    THEN ListComp([i \in 1..Len(workflows.items) |-> workflow_simple(i - 1, workflows.items[i])])
    ELSE ListComp([i \in 1..Len(workflows.items) |-> workflow_full(i - 1, workflows.items[i])])

list_workflows(rows, caller, format) ==
    IF get_current_active_user(caller) # AuthOk
    THEN Denied("list_workflows", get_current_active_user(caller), PATH_workflows, format)
    ELSE IF AdlMissing(get_multi(rows))
    THEN NotFoundConfig("list_workflows", PATH_workflows, format)
    ELSE LET adl_data == safe_load(get_multi(rows)[adl_setting(get_multi(rows))].value)
             workflows == IF adl_data.ok
                          THEN get_value_from_path(adl_data.val, PATH_workflows)
                          ELSE adl_data
             normalized == IF workflows.ok THEN normalize_workflows(workflows.val)
                           ELSE workflows
             result == IF normalized.ok THEN workflows_projection(normalized.val, format)
                       ELSE IF workflows.ok THEN normalized
                       ELSE IF workflows.exc = "HTTP404" THEN Ok(SeqVal(<<>>))
                       ELSE workflows
         IN  Finish("list_workflows", result, PATH_workflows, format)

(***************************************************************************)
(* GET /download                                                           *)
(***************************************************************************)
\* the letters of str.isalnum() and str.lower(): the ASCII ones and, written
\* by name, one letter outside Latin-1 (U+03A9 and its lower case U+03C9)
UpperChars == <<"A", "B", "C", "D", "E", "F", "G", "H", "I", "J", "K", "L", "M",
                "N", "O", "P", "Q", "R", "S", "T", "U", "V", "W", "X", "Y", "Z",
                "OMEGA">>
LowerChars == <<"a", "b", "c", "d", "e", "f", "g", "h", "i", "j", "k", "l", "m",
                "n", "o", "p", "q", "r", "s", "t", "u", "v", "w", "x", "y", "z",
                "omega">>

\* value.encode("latin-1") succeeds: the step of response.headers[...] = value
\* that raises UnicodeEncodeError otherwise
Latin1(s) == \A i \in 1..Len(s) : s[i] \notin {"OMEGA", "omega"}

InSeq(c, xs) == \E i \in 1..Len(xs) : xs[i] = c

\* s.isalnum()
IsAlnum(s) ==
    /\ s # <<>>
    /\ \A i \in 1..Len(s) :
          InSeq(s[i], UpperChars) \/ InSeq(s[i], LowerChars) \/ InSeq(s[i], Digits)

\* s.lower()
Lower(s) ==
    [i \in 1..Len(s) |->
        IF InSeq(s[i], UpperChars)
        THEN LowerChars[CHOOSE j \in 1..Len(UpperChars) : UpperChars[j] = s[i]]
        ELSE s[i]]

RECURSIVE Concat(_)
\* "".join(xs)
Concat(xs) == IF xs = <<>> THEN <<>> ELSE Head(xs) \o Concat(Tail(xs))

\* the items "for c in title" yields: the characters of a str, the elements
\* of a list, the keys of a dict; None is not iterable
IterItems(title) ==
    IF title.t = "str" THEN Ok(SeqVal([i \in 1..Len(title.s) |-> StrVal(<<title.s[i]>>)]))
    ELSE IF title.t = "seq" THEN Ok(title)
    ELSE IF title.t = "map" THEN Ok(KeysList(title))
    ELSE Raise("TypeError")

\* "".join(c if c.isalnum() else "_" for c in title).lower()
sanitized_title(title) ==
    LET cs == IterItems(title)
    IN  IF ~cs.ok THEN cs
        ELSE IF \E i \in 1..Len(cs.val.items) : cs.val.items[i].t # "str"
        THEN Raise("AttributeError")
        ELSE Ok(StrVal(Lower(Concat(
                [i \in 1..Len(cs.val.items) |->
                    IF IsAlnum(cs.val.items[i].s) THEN cs.val.items[i].s
                    ELSE <<"_">>]))))

\* the inner try of download_adl_yaml: the file name, "assistant.yaml" on
\* any exception
download_filename(yaml_content) ==
    LET yaml_data == safe_load(yaml_content)
        meta == IF yaml_data.ok THEN py_get(yaml_data.val, K_metadata, MapVal(<<>>))
                ELSE yaml_data
        desc == IF meta.ok THEN py_get(meta.val, K_description, MapVal(<<>>)) ELSE meta
        title == IF desc.ok THEN py_get(desc.val, K_title, StrVal(S_assistant)) ELSE desc
        name == IF title.ok THEN sanitized_title(title.val) ELSE title
    IN  IF name.ok THEN name.val.s \o S_yaml_suffix
        ELSE S_assistant \o S_yaml_suffix

\* download_adl_yaml taking yaml_content from the first row of the table
download_adl_yaml_FirstRow(rows, caller) ==
    IF get_current_active_user(caller) # AuthOk
    THEN Denied("download_adl_yaml", get_current_active_user(caller), <<>>, "")
    ELSE IF AdlMissing(get_multi(rows))
    THEN Resp("download_adl_yaml", 500, "Error downloading ADL configuration",
              Null, <<>>, "")
    ELSE IF ~Latin1(download_filename(get_multi(rows)[1].value))
    THEN Resp("download_adl_yaml", 500, "Error downloading ADL configuration",
              Null, <<>>, "")
    ELSE [Resp("download_adl_yaml", 200, "", Null, <<>>, "")
             EXCEPT !.content = get_multi(rows)[1].value,
                    !.filename = download_filename(get_multi(rows)[1].value),
                    !.nocache = TRUE]

\* the whole body is inside "try: ... except Exception", and HTTPException
\* is an Exception: the 404 raised for a missing record leaves as a 500, and
\* so does the UnicodeEncodeError of a Content-Disposition header whose file
\* name has a character outside Latin-1
download_adl_yaml(rows, caller) ==
    IF get_current_active_user(caller) # AuthOk
    THEN Denied("download_adl_yaml", get_current_active_user(caller), <<>>, "")
    ELSE LET found == IF AdlMissing(get_multi(rows)) THEN Raise("HTTP404")
                      ELSE Ok(Null)
         IN  IF ~found.ok
             THEN Resp("download_adl_yaml", 500, "Error downloading ADL configuration",
                       Null, <<>>, "")
             ELSE LET yaml_content == get_multi(rows)[adl_setting(get_multi(rows))].value
                  IN  IF ~Latin1(download_filename(yaml_content))
                      THEN Resp("download_adl_yaml", 500,
                                "Error downloading ADL configuration", Null, <<>>, "")
                      ELSE [Resp("download_adl_yaml", 200, "", Null, <<>>, "")
                               EXCEPT !.content = yaml_content,
                                      !.filename = download_filename(yaml_content),
                                      !.nocache = TRUE]

(***************************************************************************)
(* POST /settings/ and PUT /settings/{setting_id}                          *)
(***************************************************************************)
\* setting.create(db, obj_in=setting_in): the table with the new row
crud_create(rows, setting_in) ==
    Append(rows, [category |-> setting_in.category, key |-> setting_in.key,
                  value |-> setting_in.value, is_encrypted |-> setting_in.is_encrypted])

\* setting.update(db, db_obj, obj_in): the fields the request sent replace the
\* row's
crud_update(rows, setting_id, setting_in) ==
    [rows EXCEPT ![setting_id] =
        [category |-> IF "category" \in setting_in.fields THEN setting_in.category
                      ELSE @.category,
         key |-> IF "key" \in setting_in.fields THEN setting_in.key ELSE @.key,
         value |-> IF "value" \in setting_in.fields THEN setting_in.value ELSE @.value,
         is_encrypted |-> IF "is_encrypted" \in setting_in.fields
                          THEN setting_in.is_encrypted ELSE @.is_encrypted]]

\* the table after create_setting
create_setting_rows(rows, caller, setting_in) ==
    IF get_current_active_superuser(caller) # AuthOk THEN rows
    ELSE crud_create(rows,
            IF setting_in.is_encrypted /\ Truthy(setting_in.value)
            THEN [setting_in EXCEPT !.value = encrypt_setting(@)]
            ELSE setting_in)

create_setting(rows, caller, setting_in) ==
    IF get_current_active_superuser(caller) # AuthOk
    THEN Denied("create_setting", get_current_active_superuser(caller), <<>>, "")
    ELSE [Resp("create_setting", 200, "", Null, <<>>, "")
             EXCEPT !.content = create_setting_rows(rows, caller, setting_in)[Len(rows) + 1].value]

\* the table after update_setting
update_setting_rows(rows, caller, setting_id, setting_in) ==
    IF get_current_active_superuser(caller) # AuthOk THEN rows
    ELSE IF setting_id \notin 1..Len(rows) THEN rows
    ELSE crud_update(rows, setting_id,
            IF rows[setting_id].is_encrypted /\ "value" \in setting_in.fields
            THEN [setting_in EXCEPT !.value = encrypt_setting(@)]
            ELSE setting_in)

update_setting(rows, caller, setting_id, setting_in) ==
    IF get_current_active_superuser(caller) # AuthOk
    THEN Denied("update_setting", get_current_active_superuser(caller), <<>>, "")
    ELSE IF setting_id \notin 1..Len(rows)
    THEN Resp("update_setting", 404, "Setting not found", Null, <<>>, "")
    ELSE [Resp("update_setting", 200, "", Null, <<>>, "")
             EXCEPT !.content =
                 update_setting_rows(rows, caller, setting_id, setting_in)[setting_id].value]

(***************************************************************************)
(* The documents and paths the requests are drawn from.                    *)
(***************************************************************************)
\* the characters of a request path
PathAlphabet == {"a", "/", "."}

RECURSIVE StringsOfLen(_)
StringsOfLen(n) ==
    IF n = 0 THEN {<<>>}
    ELSE {Append(s, c) : s \in StringsOfLen(n - 1), c \in PathAlphabet}

\* every path of at most MaxPathLen characters
NavPaths == UNION {StringsOfLen(n) : n \in 0..MaxPathLen}

\* the keys of the navigator's documents: empty, ordinary, with a dot, and
\* with '/' alone, at the start, at the end, before a dot, before a letter and
\* a dot, and in the middle
NavKeys ==
    << <<>>, <<"a">>, <<".">>, <<"/">>, <<"/", "a">>, <<"a", "/">>,
       <<"/", ".">>, <<"/", "a", ".">>, <<"a", "/", "a">> >>

LeafKinds == <<"str", "null", "seq">>

\* the value at the end of the id-th key path of a document
Leaf(id, kind) ==
    IF kind = "str" THEN StrVal(IntToStr(id))
    ELSE IF kind = "seq" THEN SeqVal(<<StrVal(IntToStr(id))>>)
    ELSE Null

RECURSIVE Tree(_, _, _)
\* the document that nests every key of NavKeys to depth d; a leaf holds the
\* number of the key path that leads to it, and its kind changes with the
\* keys on that path, so that a scalar, a list and None stand under every key
Tree(d, id, n) ==
    IF d = 0 THEN Leaf(id, LeafKinds[(n % 3) + 1])
    ELSE MapVal([i \in 1..Len(NavKeys) |->
                    [k |-> NavKeys[i],
                     v |-> Tree(d - 1, id * Len(NavKeys) + i, n + i)]])

NavDocs == {Tree(d, 0, n) : d \in 0..MaxDepth, n \in {0}}
           \cup {Tree(0, 0, n) : n \in 0..2}

NavTexts == {EmptyText, BadYaml} \cup {YamlText(d) : d \in NavDocs}

\* the entries of a category
E_full ==
    MapVal(<<[k |-> K_display_name, v |-> StrVal(<<"D">>)],
             [k |-> K_description, v |-> StrVal(<<"d">>)],
             [k |-> K_sequence, v |-> SeqVal(<<StrVal(<<"s">>)>>)],
             [k |-> <<"x">>, v |-> Null]>>)
E_name == MapVal(<<[k |-> K_display_name, v |-> StrVal(<<"N">>)]>>)
E_desc == MapVal(<<[k |-> K_description, v |-> StrVal(<<"e">>)]>>)
E_empty == MapVal(<<>>)
MapEntries == {E_full, E_name, E_desc, E_empty}
Entries == MapEntries \cup {StrVal(<<"v">>), Null}

\* the key of the i-th entry of a category dict
EntryKey(i) == IF i = 1 THEN <<"/", "a">> ELSE <<"k", Digits[i + 1]>>

\* every list of at most MaxEntries entries
EntryLists == UNION {[1..n -> Entries] : n \in 0..MaxEntries}

\* the values of a category subtree: scalars, and dicts and lists of entries
CategoryValues ==
    {StrVal(<<"v">>), Null}
    \cup {MapVal([i \in 1..Len(es) |-> [k |-> EntryKey(i), v |-> es[i]]]) : es \in EntryLists}
    \cup {SeqVal(es) : es \in EntryLists}

Categories == <<K_commands, K_options, K_decorators, K_workflows>>

\* {"assistant_instructions": {"tools": tools}}
AdlDoc(tools) ==
    MapVal(<<[k |-> K_assistant_instructions,
              v |-> MapVal(<<[k |-> K_tools, v |-> tools]>>)]>>)

\* the four categories, each holding cv
AllCategories(cv) == MapVal([i \in 1..Len(Categories) |-> [k |-> Categories[i], v |-> cv]])

\* the four categories but the i-th, each holding cv
WithoutCategory(i, cv) ==
    MapVal([j \in 1..(Len(Categories) - 1) |->
               [k |-> Categories[IF j < i THEN j ELSE j + 1], v |-> cv]])

ListDocs ==
    {AdlDoc(AllCategories(cv)) : cv \in CategoryValues}
    \cup {AdlDoc(WithoutCategory(i, MapVal(<<[k |-> <<"/", "a">>, v |-> E_full]>>))) :
             i \in 1..Len(Categories)}
    \cup {AdlDoc(MapVal(<<>>)), AdlDoc(Null), AdlDoc(StrVal(<<"v">>)), AdlDoc(SeqVal(<<>>)),
          MapVal(<<[k |-> K_assistant_instructions, v |-> Null]>>),
          MapVal(<<>>), Null, StrVal(<<"v">>), SeqVal(<<>>)}

ListTexts == {EmptyText, BadYaml} \cup {YamlText(d) : d \in ListDocs}

\* the paths asked of the listing documents
ListPaths ==
    {PATH_commands, PATH_workflows, K_assistant_instructions,
     PATH_commands \o <<".", "/", "a">>,
     PATH_commands \o <<".", "/", "a", ".">> \o K_description,
     PATH_options \o <<".", "k", "2">>}

(***************************************************************************)
(* Accounts and password reset: app/core/security.py, app/crud/crud_user.py *)
(* and the register, password-reset-request and reset-password routes.     *)
(* A user row is [email, hashed_password, is_active, is_admin,             *)
(* is_approved], its id the position in the table; the clock counts hours. *)
(***************************************************************************)
\* timedelta(hours=24)
TOKEN_HOURS == 24

\* pwd_context.hash(password): a bcrypt hash, which verifies against that
\* password only
get_password_hash(password) == <<"bcrypt", password>>

\* a JWT: the payload and whether the signature is the server's
Jwt(signed, type, sub, nbf, exp, jti) ==
    [signed |-> signed, type |-> type, sub |-> sub, nbf |-> nbf, exp |-> exp, jti |-> jti]

generate_password_reset_token(email, clock, random_part) ==
    Jwt(TRUE, "password-reset", email, clock, clock + TOKEN_HOURS, random_part)

\* jwt.decode(token, SECRET_KEY, algorithms=[ALGORITHM]) at time clock
jwt_decode(token, clock) ==
    IF ~token.signed THEN Raise("JWTError")
    ELSE IF token.exp < clock THEN Raise("JWTError")
    ELSE IF token.nbf > clock THEN Raise("JWTError")
    ELSE Ok(token)

\* the email of the token, None when it does not verify
verify_password_reset_token(token, clock) ==
    LET payload == jwt_decode(token, clock)
    IN  IF ~payload.ok THEN Null
        ELSE IF payload.val.type # "password-reset" THEN Null
        ELSE StrVal(payload.val.sub)

\* user.get_by_email(db, email=email): the row's position, 0 for None
get_by_email(rows, email) ==
    LET idx == {i \in 1..Len(rows) : rows[i].email = email}
    IN  IF idx = {} THEN 0
        ELSE CHOOSE i \in idx : \A j \in idx : i <= j

\* CRUDUser.create: the first user is the administrator
user_create(rows, user_in) ==
    Append(rows, [email |-> user_in.email,
                  hashed_password |-> get_password_hash(user_in.password),
                  is_admin |-> Len(rows) = 0,
                  is_active |-> TRUE,
                  is_approved |-> Len(rows) = 0])

\* CRUDBase.update(db, db_obj, obj_in={"hashed_password": hashed_password})
crud_update_user(rows, id, hashed_password) ==
    [rows EXCEPT ![id].hashed_password = hashed_password]

\* CRUDUser.update(db, db_obj, obj_in={"password": password})
user_update(rows, id, password) ==
    crud_update_user(rows, id, get_password_hash(password))

\* setting_crud.get_by_category_and_key(db, category, key): the row's
\* position, 0 for None
get_by_category_and_key(rows, category, key) ==
    LET idx == {i \in 1..Len(rows) : rows[i].category = category /\ rows[i].key = key}
    IN  IF idx = {} THEN 0
        ELSE CHOOSE i \in idx : \A j \in idx : i <= j

\* registration_open tested without lower()
registration_open_CaseSensitive(rows) ==
    LET id == get_by_category_and_key(rows, "General", "registration_open")
    IN  /\ id > 0
        /\ rows[id].value.enc = 0
        /\ rows[id].value.kind = "yaml"
        /\ rows[id].value.doc.t = "str"
        /\ rows[id].value.doc.s = S_true

\* registration_setting and registration_setting.value.lower() == "true"
registration_open(rows) ==
    LET id == get_by_category_and_key(rows, "General", "registration_open")
    IN  /\ id > 0
        /\ rows[id].value.enc = 0
        /\ rows[id].value.kind = "yaml"
        /\ rows[id].value.doc.t = "str"
        /\ Lower(rows[id].value.doc.s) = S_true

NoToken == Jwt(FALSE, "", "", 0, 0, "")

\* the response of an account route, with the request it answers
AuthResp(ep, status, detail, email, token, password) ==
    [ep |-> ep, status |-> status, detail |-> detail, email |-> email,
     token |-> token, password |-> password]

\* await send_email(...): the mail is accepted, or the call raises
send_email(sent) == IF sent THEN Ok(Null) ELSE Raise("SMTPException")

\* try: ... except Exception as e: print(...) around a step that raises
Swallowed_Reraise(r) == r

\* try: ... except Exception as e: print(...)
Swallowed(r) == Ok(Null)

\* the rows of the administrators
admin_users(rows) == {i \in 1..Len(rows) : rows[i].is_admin}

\* how FastAPI answers the outcome of the body of an account route
AuthFinish(r, ep, detail, email, token, password) ==
    IF r.ok THEN AuthResp(ep, 200, detail, email, token, password)
    ELSE AuthResp(ep, 500, "Internal Server Error", email, token, password)

\* the users table after register
register_users(rows, table, user_in) ==
    IF ~registration_open(table) THEN rows
    ELSE IF get_by_email(rows, user_in.email) > 0 THEN rows
    ELSE user_create(rows, user_in)

\* sent: the notification mails are accepted; they go out for a user who is
\* not approved at creation
register(rows, table, user_in, sent) ==
    IF ~registration_open(table)
    THEN AuthResp("register", 403, "Registration is currently closed.",
                  user_in.email, NoToken, user_in.password)
    ELSE IF get_by_email(rows, user_in.email) > 0
    THEN AuthResp("register", 400, "The user with this email already exists in the system.",
                  user_in.email, NoToken, user_in.password)
    ELSE LET created == user_create(rows, user_in)
             mails == IF ~created[Len(created)].is_approved
                      THEN Swallowed(send_email(sent)) ELSE Ok(Null)
         IN  AuthFinish(mails, "register", "", user_in.email, NoToken, user_in.password)

\* the reset links request_password_reset mails: one to an active user whose
\* mail is accepted, none otherwise
request_password_reset_mail(rows, email, clock, random_part, sent) ==
    IF get_by_email(rows, email) > 0 /\ rows[get_by_email(rows, email)].is_active /\ sent
    THEN {generate_password_reset_token(email, clock, random_part)}
    ELSE {}

\* sent: the mail to the user is accepted; notified: the mails to the
\* administrators are
request_password_reset(rows, email, sent, notified) ==
    LET id == get_by_email(rows, email)
        active == id > 0 /\ rows[id].is_active
        mail == IF active THEN Swallowed(send_email(sent)) ELSE Ok(Null)
        notice == Swallowed(IF active /\ admin_users(rows) # {}
                            THEN send_email(notified) ELSE Ok(Null))
    IN  AuthFinish(IF ~mail.ok THEN mail ELSE notice, "request_password_reset",
                   "If the email exists in our system, a password reset link has been sent.",
                   email, NoToken, "")

\* the users table after reset_password
reset_password_users(rows, clock, token, password) ==
    LET email == verify_password_reset_token(token, clock)
    IN  IF email.t = "null" \/ email.s = "" THEN rows
        ELSE IF get_by_email(rows, email.s) = 0 THEN rows
        ELSE user_update(rows, get_by_email(rows, email.s), password)

reset_password(rows, clock, token, password) ==
    LET email == verify_password_reset_token(token, clock)
    IN  IF email.t = "null" \/ email.s = ""
        THEN AuthResp("reset_password", 400, "Invalid or expired token", "", token, password)
        ELSE IF get_by_email(rows, email.s) = 0
        THEN AuthResp("reset_password", 404, "User not found", email.s, token, password)
        ELSE AuthResp("reset_password", 200, "Password has been reset successfully.",
                      email.s, token, password)

\* the updates of the registration_open record: a new value, 'true' in
\* either case, 'false' or empty, and a new key
RegistrationUpdates ==
    {[category |-> "General", key |-> "registration_open", value |-> text,
      is_encrypted |-> FALSE, fields |-> {"value"}] :
        text \in {YamlText(StrVal(S_true)), YamlText(StrVal(<<"T", "r", "u", "e">>)),
                  YamlText(StrVal(<<"f", "a", "l", "s", "e">>)), EmptyText}}
    \cup {[category |-> "General", key |-> key, value |-> EmptyText,
           is_encrypted |-> FALSE, fields |-> {"key"}] :
             key \in {"registration_open", "registration"}}

\* the addresses, passwords and token ids of the account requests
Emails == {"a@x", "b@x"}

Passwords == {"password1", "password2"}

RandomParts == {"0f", "a7"}

\* tokens a client can send that no reset link carried: an access token of
\* the first user, and a token signed with another key
OtherTokens ==
    {Jwt(TRUE, "", "1", 0, MaxNow + TOKEN_HOURS, ""),
     Jwt(FALSE, "password-reset", "a@x", 0, MaxNow + TOKEN_HOURS, "0f")}

(***************************************************************************)
(* POST /chat/message: send_message and its wait for the assistant run.    *)
(* poll is the position of the one request in progress: pc, the polls made *)
(* of the run and the status the last poll reported.                       *)
(***************************************************************************)
\* max_attempts = 60
max_attempts == 60

NoRun == [pc |-> "idle", attempts |-> 0, status |-> ""]

\* the response of a chat route
ChatResp(status, detail) ==
    [ep |-> "send_message", status |-> status, detail |-> detail]

\* the except clauses of send_message
send_message_except(exc) ==
    IF exc = "AuthenticationError" THEN ChatResp(401, "Invalid OpenAI API key")
    ELSE IF exc = "RateLimitError" THEN ChatResp(429, "OpenAI API rate limit exceeded")
    ELSE ChatResp(500, "Error processing message")

\* what the request meets before the run is created: no assistant_id, no
\* message content, a provider call that raises, or none of these
Preambles == {"ok", "no_assistant", "no_content", "AuthenticationError", "RateLimitError",
              "APIError"}

send_message_preamble(pre) ==
    IF pre = "no_assistant" THEN ChatResp(400, "No assistant configured")
    ELSE IF pre = "no_content"
    THEN ChatResp(400, "A message or a file with extractable content is required")
    ELSE send_message_except(pre)

\* what client.ChatCompletion.retrieve gives: a run status, or it raises
RunStatuses == {"queued", "in_progress", "requires_action", "completed", "failed",
                "cancelled", "expired"}

PollErrors == {"AuthenticationError", "RateLimitError", "APIError"}

TerminalFailures == {"failed", "cancelled", "expired"}

\* what client.ChatCompletion.list gives
MessageLists == {"answer", "no_data", "no_content", "APIError"}

send_message_result(messages) ==
    IF messages = "answer" THEN ChatResp(200, "completed")
    ELSE IF messages = "no_data" THEN ChatResp(500, "No response received from assistant")
    ELSE IF messages = "no_content" THEN ChatResp(500, "Empty response from assistant")
    ELSE send_message_except(messages)

(***************************************************************************)
(* The WebSocket chat (websocket_endpoint).  message_history is the list   *)
(* the connection keeps; a message is a record of role and content.        *)
(***************************************************************************)
\* message_history[-n:] as Python slices it: a negative start counts from
\* the end and is clamped at 0, a start of 0 (n = 0) is the whole list
py_last(xs, n) ==
    LET k == 0 - n
        start == IF k < 0
                 THEN (IF Len(xs) + k > 0 THEN Len(xs) + k ELSE 0)
                 ELSE (IF k < Len(xs) THEN k ELSE Len(xs))
    IN  SubSeq(xs, start + 1, Len(xs))

\* int(text) of the setting's text: the decimal it spells, or ValueError
py_int(text) ==
    IF text = "0" THEN Ok(0)
    ELSE IF text = "1" THEN Ok(1)
    ELSE IF text = "2" THEN Ok(2)
    ELSE IF text = "3" THEN Ok(3)
    ELSE Raise("ValueError")

\* the texts the setting OpenAI/max_history_messages may hold
HistoryLimits == {"0", "1", "2", "3", "ten"}

\* the default system prompt of the handler
DEFAULT_PROMPT == "You are a helpful AI assistant named PatricIA."

\* None, among the texts a setting holds
NoneText == [kind |-> "none", doc |-> Null, enc |-> 0]

\* get_assistant_adl: the value of System/'Assistant ADL', or None
get_assistant_adl(rows) ==
    LET id == get_by_category_and_key(rows, "System", ADL_KEY)
    IN  IF id > 0 THEN rows[id].value ELSE NoneText

\* assistant_adl or the default prompt
system_prompt(rows) ==
    IF get_assistant_adl(rows).kind \in {"none", "empty"}
    THEN DEFAULT_PROMPT
    ELSE get_assistant_adl(rows)

Message(role, content) == [role |-> role, content |-> content]

\* the messages of the provider call
ws_messages(rows, history, max_history_messages) ==
    <<Message("system", system_prompt(rows))>> \o py_last(history, max_history_messages)

\* what the client is sent last for one message, with the messages the
\* provider was called with (<<>> when it was not called)
WsResp(type, content, limit, messages) ==
    [ep |-> "websocket_endpoint", type |-> type, content |-> content,
     limit |-> limit, messages |-> messages]

\* the contents a client sends
Contents == {"hello", "again"}

\* what the provider call does: it streams a reply, or it raises
Completions == {"reply", "APIError"}

(***************************************************************************)
(* Registrations that run concurrently.  Every request has its own session *)
(* and the event loop may switch to another request at each await; reg is  *)
(* the position of each request: the await it is at, its body, what        *)
(* CRUDUser.create read of the users table, and the status it ends with.   *)
(***************************************************************************)
Procs == {1, 2}

NoRegistration ==
    [pc |-> "idle", user_in |-> [email |-> "", password |-> ""], is_first_user |-> FALSE,
     status |-> 0]

\* db_obj = User(...) of CRUDUser.create
create_db_obj(user_in, is_first_user) ==
    [email |-> user_in.email,
     hashed_password |-> get_password_hash(user_in.password),
     is_admin |-> is_first_user,
     is_active |-> TRUE,
     is_approved |-> is_first_user]

\* a secret as a client sends it, and the empty value
S_secret == YamlText(StrVal(<<"s", "k">>))
PlainTexts == {EmptyText, S_secret}

\* the bodies of POST /settings/ for the key OpenAI/OPENAI_API_KEY
FlagCreates ==
    {[category |-> "OpenAI", key |-> "OPENAI_API_KEY", value |-> text,
      is_encrypted |-> flag, fields |-> {"category", "key", "value", "is_encrypted"}] :
        text \in PlainTexts, flag \in BOOLEAN}

\* the bodies of PUT /settings/{setting_id} that set a value, the flag or both
FlagUpdates ==
    {[category |-> "OpenAI", key |-> "OPENAI_API_KEY", value |-> text,
      is_encrypted |-> flag, fields |-> fields] :
        text \in PlainTexts, flag \in BOOLEAN,
        fields \in {{"value"}, {"is_encrypted"}, {"value", "is_encrypted"}}}

(***************************************************************************)
(* POST /assistants/create, PUT /assistants/update/{assistant_id} and      *)
(* DELETE /assistants/delete/{assistant_id}.  The provider's answer is an  *)
(* input: the assistant it created or updated, or an exception.            *)
(***************************************************************************)
\* the response of an assistant route, with the client that sent the request
AssistResp(ep, status, caller) == [ep |-> ep, status |-> status, caller |-> caller]

\* the value of the OpenAI setting key as get_openai_settings gives it: the
\* row's value, decrypted when the row is marked encrypted
openai_value(rows, key) ==
    LET id == get_by_category_and_key(rows, "OpenAI", key)
    IN  IF id = 0 THEN EmptyText
        ELSE IF rows[id].is_encrypted THEN decrypt_setting(rows[id].value).val
        ELSE rows[id].value

\* get_openai_settings: HTTPException 500 when an encrypted row does not
\* decrypt
get_openai_settings(rows) ==
    IF \E i \in 1..Len(rows) :
          /\ rows[i].category = "OpenAI"
          /\ rows[i].is_encrypted
          /\ ~decrypt_setting(rows[i].value).ok
    THEN Raise("HTTP500")
    ELSE Ok(Null)

\* get_openai_client: the settings are read and the API key must be set
get_openai_client(rows) ==
    IF ~get_openai_settings(rows).ok THEN get_openai_settings(rows)
    ELSE IF ~Truthy(openai_value(rows, "OPENAI_API_KEY")) THEN Raise("HTTP500")
    ELSE Ok(Null)

\* what the provider reports of the assistant
S_assistant_id == YamlText(StrVal(<<"a", "s", "s", "t">>))
S_assistant_name == YamlText(StrVal(<<"B", "o", "t">>))
S_assistant_model == YamlText(StrVal(<<"g", "p", "t">>))

AssistantSetting(key, value) ==
    [category |-> "OpenAI", key |-> key, value |-> value, is_encrypted |-> FALSE,
     fields |-> {"value"}]

\* one pass of "for setting_data in assistant_settings": the row is updated,
\* or created when create is set
assistant_setting(rows, key, value, create) ==
    IF get_by_category_and_key(rows, "OpenAI", key) > 0
    THEN crud_update(rows, get_by_category_and_key(rows, "OpenAI", key),
                     AssistantSetting(key, value))
    ELSE IF create THEN crud_create(rows, AssistantSetting(key, value))
    ELSE rows

\* the body of create_assistant up to the settings: the model is configured,
\* the document has a title, the client is built and the provider answers
create_assistant_try(rows, titled, created) ==
    IF ~get_openai_settings(rows).ok THEN get_openai_settings(rows)
    ELSE IF ~Truthy(openai_value(rows, "model")) THEN Raise("HTTP400")
    ELSE IF ~titled THEN Raise("HTTP400")
    ELSE IF ~get_openai_client(rows).ok THEN get_openai_client(rows)
    ELSE IF ~created THEN Raise("APIError")
    ELSE Ok(Null)

\* the table after create_assistant
create_assistant_rows(rows, titled, created) ==
    IF ~create_assistant_try(rows, titled, created).ok THEN rows
    ELSE assistant_setting(
             assistant_setting(
                 assistant_setting(rows, "assistant_id", S_assistant_id, TRUE),
                 "assistant_name", S_assistant_name, TRUE),
             "assistant_model", S_assistant_model, TRUE)

\* every exception of the body, HTTPException included, leaves as a 500; the
\* route has no dependency on the caller
create_assistant(rows, caller, titled, created) ==
    IF create_assistant_try(rows, titled, created).ok
    THEN AssistResp("create_assistant", 200, caller)
    ELSE AssistResp("create_assistant", 500, caller)

update_assistant_try(rows, titled, updated) ==
    IF ~titled THEN Raise("HTTP400")
    ELSE IF ~get_openai_client(rows).ok THEN get_openai_client(rows)
    ELSE IF ~updated THEN Raise("APIError")
    ELSE Ok(Null)

\* the table after update_assistant: only rows that exist are written
update_assistant_rows(rows, titled, updated) ==
    IF ~update_assistant_try(rows, titled, updated).ok THEN rows
    ELSE assistant_setting(
             assistant_setting(rows, "assistant_name", S_assistant_name, FALSE),
             "assistant_model", S_assistant_model, FALSE)

update_assistant(rows, caller, titled, updated) ==
    IF update_assistant_try(rows, titled, updated).ok
    THEN AssistResp("update_assistant", 200, caller)
    ELSE AssistResp("update_assistant", 500, caller)

\* setting_crud.remove(db, id)
crud_remove(rows, id) ==
    [i \in 1..(Len(rows) - 1) |-> IF i < id THEN rows[i] ELSE rows[i + 1]]

\* one pass of the clean-up loop of delete_assistant
assistant_setting_removed(rows, key) ==
    IF get_by_category_and_key(rows, "OpenAI", key) > 0
    THEN crud_remove(rows, get_by_category_and_key(rows, "OpenAI", key))
    ELSE rows

\* deleted: the provider deletes the assistant or does not find it
delete_assistant_try(rows, deleted) ==
    IF ~get_openai_client(rows).ok THEN get_openai_client(rows)
    ELSE IF ~deleted THEN Raise("HTTP500")
    ELSE Ok(Null)

\* the table after delete_assistant
delete_assistant_rows(rows, caller, deleted) ==
    IF get_current_active_superuser(caller) # AuthOk THEN rows
    ELSE IF ~delete_assistant_try(rows, deleted).ok THEN rows
    ELSE assistant_setting_removed(
             assistant_setting_removed(
                 assistant_setting_removed(rows, "assistant_id"),
                 "assistant_name"),
             "assistant_model")

delete_assistant(rows, caller, deleted) ==
    IF get_current_active_superuser(caller) # AuthOk
    THEN AssistResp("delete_assistant", get_current_active_superuser(caller).status, caller)
    ELSE IF ~delete_assistant_try(rows, deleted).ok
    THEN AssistResp("delete_assistant", 500, caller)
    ELSE AssistResp("delete_assistant", 200, caller)

\* the OpenAI records an administrator configures: the model and the API key
OpenAISettings ==
    {[category |-> "OpenAI", key |-> "model", value |-> S_assistant_model,
      is_encrypted |-> FALSE, fields |-> {"category", "key", "value", "is_encrypted"}],
     [category |-> "OpenAI", key |-> "OPENAI_API_KEY", value |-> S_secret,
      is_encrypted |-> TRUE, fields |-> {"category", "key", "value", "is_encrypted"}]}

\* two documents and the empty text, for the runs that file records under
\* more than one category
StoreTexts ==
    {EmptyText,
     YamlText(AdlDoc(AllCategories(MapVal(<<[k |-> EntryKey(1), v |-> E_full]>>)))),
     YamlText(AdlDoc(AllCategories(MapVal(<<[k |-> EntryKey(2), v |-> E_name]>>))))}

StorePaths == {PATH_commands, K_assistant_instructions}

\* a document whose metadata.description holds d
TitleDoc(d) ==
    MapVal(<<[k |-> K_metadata, v |-> MapVal(<<[k |-> K_description, v |-> d]>>)]>>)

\* the value of a title key
Titled(title) == MapVal(<<[k |-> K_title, v |-> title]>>)

\* the texts a download is asked of: the empty one, one that does not parse,
\* and documents with a title, with titles that are no text, and without one
TitleTexts ==
    {EmptyText, BadYaml, YamlText(Null), YamlText(StrVal(<<"v">>)), YamlText(MapVal(<<>>)),
     YamlText(MapVal(<<[k |-> K_metadata, v |-> StrVal(<<"v">>)]>>)),
     YamlText(MapVal(<<[k |-> K_metadata, v |-> Null]>>)),
     YamlText(TitleDoc(Null)),
     YamlText(TitleDoc(MapVal(<<>>))),
     YamlText(TitleDoc(Titled(StrVal(<<"M", "y", " ", "B", "o", "t">>)))),
     YamlText(TitleDoc(Titled(StrVal(<<>>)))),
     YamlText(TitleDoc(Titled(StrVal(<<"OMEGA", "1">>)))),
     YamlText(TitleDoc(Titled(Null))),
     YamlText(TitleDoc(Titled(SeqVal(<<StrVal(<<"a", "b">>)>>)))),
     YamlText(TitleDoc(Titled(SeqVal(<<Null>>))))}

\* the values of the format query parameter: the three documented ones and
\* one other string, which Query("full") accepts as well
Formats == {"full", "simple", "names", "xml"}

\* a row init_db creates at startup
DefaultSettings ==
    <<[category |-> "General", key |-> "registration_open",
       value |-> YamlText(StrVal(S_true)), is_encrypted |-> FALSE]>>

(***************************************************************************)
(* The state machine: one action per request handler.                      *)
(***************************************************************************)
Init ==
    /\ settings = DefaultSettings
    /\ response = NoResponse
    /\ users = <<>>
    /\ now = 0
    /\ mailbox = {}
    /\ poll = NoRun
    /\ message_history = <<>>
    /\ reg = [p \in Procs |-> NoRegistration]

\* GetAdlValue answering from the table read when the server started
GetAdlValue_Startup(caller, path) ==
    /\ response' = get_adl_value(DefaultSettings, caller, path)
    /\ UNCHANGED <<settings, users, now, mailbox, chatvars, reg>>

GetAdlValue(caller, path) ==
    /\ response' = get_adl_value(settings, caller, path)
    /\ UNCHANGED <<settings, users, now, mailbox, chatvars, reg>>

ListCommands(caller, format) ==
    /\ response' = list_commands(settings, caller, format)
    /\ UNCHANGED <<settings, users, now, mailbox, chatvars, reg>>

ListOptions(caller, format) ==
    /\ response' = list_options(settings, caller, format)
    /\ UNCHANGED <<settings, users, now, mailbox, chatvars, reg>>

ListDecorators(caller, format) ==
    /\ response' = list_decorators(settings, caller, format)
    /\ UNCHANGED <<settings, users, now, mailbox, chatvars, reg>>

\* ListWorkflows storing the list it converted the workflows to
ListWorkflows_WritesBack(caller, format) ==
    /\ response' = list_workflows(settings, caller, format)
    /\ settings' = IF response'.status = 200 /\ ~AdlMissing(settings)
                   THEN [settings EXCEPT ![adl_setting(settings)].value =
                                            YamlText(response'.body)]
                   ELSE settings
    /\ UNCHANGED <<users, now, mailbox, chatvars, reg>>

ListWorkflows(caller, format) ==
    /\ response' = list_workflows(settings, caller, format)
    /\ UNCHANGED <<settings, users, now, mailbox, chatvars, reg>>

DownloadAdlYaml(caller) ==
    /\ response' = download_adl_yaml(settings, caller)
    /\ UNCHANGED <<settings, users, now, mailbox, chatvars, reg>>

CreateSetting(caller, setting_in) ==
    /\ settings' = create_setting_rows(settings, caller, setting_in)
    /\ response' = create_setting(settings, caller, setting_in)
    /\ UNCHANGED <<users, now, mailbox, chatvars, reg>>

UpdateSetting(caller, setting_id, setting_in) ==
    /\ settings' = update_setting_rows(settings, caller, setting_id, setting_in)
    /\ response' = update_setting(settings, caller, setting_id, setting_in)
    /\ UNCHANGED <<users, now, mailbox, chatvars, reg>>

Register(user_in, sent) ==
    /\ users' = register_users(users, settings, user_in)
    /\ response' = register(users, settings, user_in, sent)
    /\ UNCHANGED <<settings, now, mailbox, chatvars, reg>>

RequestPasswordReset(email, random_part, sent, notified) ==
    /\ mailbox' = mailbox \cup request_password_reset_mail(users, email, now, random_part, sent)
    /\ response' = request_password_reset(users, email, sent, notified)
    /\ UNCHANGED <<settings, users, now, chatvars, reg>>

ResetPassword(token, password) ==
    /\ users' = reset_password_users(users, now, token, password)
    /\ response' = reset_password(users, now, token, password)
    /\ UNCHANGED <<settings, now, mailbox, chatvars, reg>>

\* register up to its first await: the registration_open setting is read
RegOpen(p, user_in) ==
    /\ reg[p].pc = "idle"
    /\ reg' = [reg EXCEPT ![p] =
                 IF registration_open(settings)
                 THEN [NoRegistration EXCEPT !.pc = "get_by_email", !.user_in = user_in]
                 ELSE [NoRegistration EXCEPT !.pc = "done", !.user_in = user_in,
                                             !.status = 403]]
    /\ UNCHANGED <<settings, response, users, now, mailbox, chatvars>>

\* await user.get_by_email(db, email=user_in.email)
RegEmail(p) ==
    /\ reg[p].pc = "get_by_email"
    /\ reg' = [reg EXCEPT ![p] =
                 IF get_by_email(users, reg[p].user_in.email) > 0
                 THEN [@ EXCEPT !.pc = "done", !.status = 400]
                 ELSE [@ EXCEPT !.pc = "select"]]
    /\ UNCHANGED <<settings, response, users, now, mailbox, chatvars>>

\* CRUDUser.create up to "await db.execute(select(User))": is_first_user
RegSelect(p) ==
    /\ reg[p].pc = "select"
    /\ reg' = [reg EXCEPT ![p] = [@ EXCEPT !.pc = "commit", !.is_first_user = Len(users) = 0]]
    /\ UNCHANGED <<settings, response, users, now, mailbox, chatvars>>

\* db.add(db_obj); await db.commit(): the row is inserted, or the unique
\* index on email refuses it; the mails that follow do not change the answer
RegCommit(p) ==
    /\ reg[p].pc = "commit"
    /\ Len(users) < MaxUsers
    /\ IF get_by_email(users, reg[p].user_in.email) > 0
       THEN /\ reg' = [reg EXCEPT ![p] = [@ EXCEPT !.pc = "done", !.status = 500]]
            /\ UNCHANGED users
       ELSE /\ users' = Append(users, create_db_obj(reg[p].user_in, reg[p].is_first_user))
            /\ reg' = [reg EXCEPT ![p] = [@ EXCEPT !.pc = "done", !.status = 200]]
    /\ UNCHANGED <<settings, response, now, mailbox, chatvars>>

\* the response leaves; the worker takes the next request
RegReturn(p) ==
    /\ reg[p].pc = "done"
    /\ reg' = [reg EXCEPT ![p] = NoRegistration]
    /\ UNCHANGED <<settings, response, users, now, mailbox, chatvars>>

CreateAssistant(caller, titled, created) ==
    /\ settings' = create_assistant_rows(settings, titled, created)
    /\ response' = create_assistant(settings, caller, titled, created)
    /\ UNCHANGED <<users, now, mailbox, chatvars, reg>>

UpdateAssistant(caller, titled, updated) ==
    /\ settings' = update_assistant_rows(settings, titled, updated)
    /\ response' = update_assistant(settings, caller, titled, updated)
    /\ UNCHANGED <<users, now, mailbox, chatvars, reg>>

DeleteAssistant(caller, deleted) ==
    /\ settings' = delete_assistant_rows(settings, caller, deleted)
    /\ response' = delete_assistant(settings, caller, deleted)
    /\ UNCHANGED <<users, now, mailbox, chatvars, reg>>

\* datetime.utcnow() moves on by the life of a token
Tick ==
    /\ now + TOKEN_HOURS <= MaxNow
    /\ now' = now + TOKEN_HOURS
    /\ UNCHANGED <<settings, response, users, mailbox, chatvars, reg>>

\* send_message up to the creation of the run
SendMessage(caller, pre) ==
    /\ poll.pc = "idle"
    /\ IF get_current_active_user(caller) # AuthOk
       THEN /\ response' = ChatResp(get_current_active_user(caller).status,
                                     get_current_active_user(caller).detail)
            /\ poll' = NoRun
       ELSE IF pre = "ok"
       THEN /\ poll' = [pc |-> "polling", attempts |-> 0, status |-> ""]
            /\ UNCHANGED response
       ELSE /\ response' = send_message_preamble(pre)
            /\ poll' = NoRun
    /\ UNCHANGED <<settings, users, now, mailbox, message_history, reg>>

\* one pass of "for _ in range(max_attempts)" that fails to retrieve the run
PollRaises(exc) ==
    /\ poll.pc = "polling"
    /\ poll.attempts < max_attempts
    /\ poll' = [pc |-> "idle", attempts |-> poll.attempts + 1, status |-> exc]
    /\ response' = send_message_except(exc)
    /\ UNCHANGED <<settings, users, now, mailbox, message_history, reg>>

\* Poll leaving the number of polls as it was
Poll_Uncounted(run_status) ==
    /\ poll.pc = "polling"
    /\ poll.attempts < max_attempts
    /\ IF run_status = "completed"
       THEN /\ poll' = [poll EXCEPT !.pc = "completed", !.status = run_status]
            /\ UNCHANGED response
       ELSE IF run_status \in TerminalFailures
       THEN /\ poll' = [poll EXCEPT !.pc = "idle", !.status = run_status]
            /\ response' = ChatResp(500, "Assistant run failed with status")
       ELSE /\ poll' = [poll EXCEPT !.status = run_status]
            /\ UNCHANGED response
    /\ UNCHANGED <<settings, users, now, mailbox, message_history, reg>>

\* one pass of "for _ in range(max_attempts)": retrieve the run, break, raise
\* or sleep
Poll(run_status) ==
    /\ poll.pc = "polling"
    /\ poll.attempts < max_attempts
    /\ IF run_status = "completed"
       THEN /\ poll' = [pc |-> "completed", attempts |-> poll.attempts + 1,
                        status |-> run_status]
            /\ UNCHANGED response
       ELSE IF run_status \in TerminalFailures
       THEN /\ poll' = [pc |-> "idle", attempts |-> poll.attempts + 1,
                        status |-> run_status]
            /\ response' = ChatResp(500, "Assistant run failed with status")
       ELSE /\ poll' = [pc |-> "polling", attempts |-> poll.attempts + 1,
                        status |-> run_status]
            /\ UNCHANGED response
    /\ UNCHANGED <<settings, users, now, mailbox, message_history, reg>>

\* the else of the for loop: max_attempts passes and no break
PollTimeout ==
    /\ poll.pc = "polling"
    /\ poll.attempts >= max_attempts
    /\ poll' = [poll EXCEPT !.pc = "idle"]
    /\ response' = ChatResp(504, "Assistant response timeout")
    /\ UNCHANGED <<settings, users, now, mailbox, message_history, reg>>

\* after the break: the latest message of the thread
FetchAnswer(messages) ==
    /\ poll.pc = "completed"
    /\ poll' = [poll EXCEPT !.pc = "idle"]
    /\ response' = send_message_result(messages)
    /\ UNCHANGED <<settings, users, now, mailbox, message_history, reg>>

\* one pass of the receive loop with a message that has content: the
\* settings are read, the message joins the history, the provider is called
\* and its reply joins the history
WsMessage(content, limit_text, completion) ==
    /\ Len(message_history) + 2 <= MaxHistory
    /\ IF py_int(limit_text).ok
       THEN LET history == Append(message_history, Message("user", content))
                messages == ws_messages(settings, history, py_int(limit_text).val)
            IN  IF completion = "APIError"
                THEN /\ message_history' = history
                     /\ response' = WsResp("error", content, limit_text, messages)
                ELSE /\ message_history' = Append(history, Message("assistant", completion))
                     /\ response' = WsResp("complete", content, limit_text, messages)
       ELSE /\ response' = WsResp("error", content, limit_text, <<>>)
            /\ UNCHANGED message_history
    /\ UNCHANGED <<settings, users, now, mailbox, poll, reg>>

\* a message without content: the error is sent and the loop continues
WsInvalid ==
    /\ response' = WsResp("invalid", "", "", <<>>)
    /\ UNCHANGED <<settings, users, now, mailbox, poll, message_history, reg>>

\* WebSocketDisconnect ends the handler; the next connection starts with an
\* empty history
WsDisconnect ==
    /\ message_history # <<>>
    /\ message_history' = <<>>
    /\ UNCHANGED <<settings, response, users, now, mailbox, poll, reg>>

\* the body of a request that stores text as the ADL document
AdlSettingIn(category, text) ==
    [category |-> category, key |-> ADL_KEY, value |-> text, is_encrypted |-> FALSE,
     fields |-> {"value"}]

\* the rows that hold the key 'Assistant ADL'
AdlRows(rows) == {i \in 1..Len(rows) : rows[i].key = ADL_KEY}

\* the categories of cs under which no row holds the key 'Assistant ADL'
FreeCategories(rows, cs) ==
    {c \in cs : \A i \in AdlRows(rows) : rows[i].category # c}

\* the client receives the response
Deliver ==
    /\ response # NoResponse
    /\ response' = NoResponse
    /\ UNCHANGED <<settings, users, now, mailbox, chatvars, reg>>

\* the requests of a run whose ADL documents are drawn from texts, whose
\* lookup paths are drawn from paths and whose records are filed under the
\* categories of cs, one request at a time; the administrator creates one
\* 'Assistant ADL' record per category and updates the value of a record
\* afterwards; an update may also name a row that does not exist
Requests(texts, paths, cs) ==
    \/ /\ response = NoResponse
       /\ \E caller \in Callers, text \in texts, c \in FreeCategories(settings, cs) :
              CreateSetting(caller, AdlSettingIn(c, text))
    \/ /\ response = NoResponse
       /\ \E caller \in Callers, text \in texts, id \in AdlRows(settings) :
              UpdateSetting(caller, id, AdlSettingIn(ADL_CATEGORY, text))
    \/ /\ response = NoResponse
       /\ \E caller \in Callers :
              UpdateSetting(caller, Len(settings) + 1, AdlSettingIn(ADL_CATEGORY, EmptyText))
    \/ /\ response = NoResponse
       /\ \E caller \in Callers, path \in paths : GetAdlValue(caller, path)
    \/ /\ response = NoResponse
       /\ \E caller \in Callers, format \in Formats : ListCommands(caller, format)
    \/ /\ response = NoResponse
       /\ \E caller \in Callers, format \in Formats : ListOptions(caller, format)
    \/ /\ response = NoResponse
       /\ \E caller \in Callers, format \in Formats : ListDecorators(caller, format)
    \/ /\ response = NoResponse
       /\ \E caller \in Callers, format \in Formats : ListWorkflows(caller, format)
    \/ /\ response = NoResponse
       /\ \E caller \in Callers : DownloadAdlYaml(caller)
    \/ Deliver

NextNav == Requests(NavTexts, NavPaths, {ADL_CATEGORY})

NextList == Requests(ListTexts, ListPaths, {ADL_CATEGORY})

NextStore == Requests(StoreTexts, StorePaths, {ADL_CATEGORY, "Other"})

\* requests against the navigator's documents, with every short path
SpecNav == Init /\ [][NextNav]_vars

\* requests against documents that hold the four categories
SpecList == Init /\ [][NextList]_vars

\* requests against a table that may hold the key 'Assistant ADL' under two
\* categories
SpecStore == Init /\ [][NextStore]_vars

NextDownload == Requests(TitleTexts, {K_assistant_instructions}, {ADL_CATEGORY})

\* requests against documents with and without a title
SpecDownload == Init /\ [][NextDownload]_vars

\* the account requests of a run, one at a time; a client resets a password
\* with a token of a reset link it was mailed, or with another token
NextAuth ==
    \/ /\ response = NoResponse
       /\ \E email \in Emails, password \in Passwords, sent \in BOOLEAN :
              Register([email |-> email, password |-> password], sent)
    \/ /\ response = NoResponse
       /\ \E caller \in Callers, id \in 1..Len(settings), setting_in \in RegistrationUpdates :
              UpdateSetting(caller, id, setting_in)
    \/ /\ response = NoResponse
       /\ Cardinality(mailbox) < MaxTokens
       /\ \E email \in Emails, random_part \in RandomParts, sent \in BOOLEAN,
              notified \in BOOLEAN :
              RequestPasswordReset(email, random_part, sent, notified)
    \/ /\ response = NoResponse
       /\ \E token \in mailbox \cup OtherTokens, password \in Passwords :
              ResetPassword(token, password)
    \/ Tick
    \/ Deliver

\* registrations, reset requests and resets while the clock runs
SpecAuth == Init /\ [][NextAuth]_vars

\* registrations whose awaits interleave
NextRace ==
    \/ \E p \in Procs, email \in Emails, password \in Passwords :
           RegOpen(p, [email |-> email, password |-> password])
    \/ \E p \in Procs : RegEmail(p)
    \/ \E p \in Procs : RegSelect(p)
    \/ \E p \in Procs : RegCommit(p)
    \/ \E p \in Procs : RegReturn(p)

SpecRace == Init /\ [][NextRace]_vars

\* settings created and updated with either flag
NextFlags ==
    \/ /\ response = NoResponse /\ Len(settings) < MaxSettings
       /\ \E caller \in Callers, setting_in \in FlagCreates : CreateSetting(caller, setting_in)
    \/ /\ response = NoResponse
       /\ \E caller \in Callers, id \in 1..Len(settings), setting_in \in FlagUpdates :
              UpdateSetting(caller, id, setting_in)
    \/ Deliver

SpecFlags == Init /\ [][NextFlags]_vars

\* the settings an administrator has yet to create
FreeSettings(rows) ==
    {setting_in \in OpenAISettings :
        get_by_category_and_key(rows, setting_in.category, setting_in.key) = 0}

\* the settings routes and the assistant routes, from every kind of client
NextAssist ==
    \/ /\ response = NoResponse
       /\ \E caller \in Callers, setting_in \in FreeSettings(settings) :
              CreateSetting(caller, setting_in)
    \/ /\ response = NoResponse
       /\ \E caller \in Callers, id \in 1..Len(settings) :
              UpdateSetting(caller, id, AssistantSetting("", EmptyText))
    \/ /\ response = NoResponse
       /\ \E caller \in Callers, titled \in BOOLEAN, created \in BOOLEAN :
              CreateAssistant(caller, titled, created)
    \/ /\ response = NoResponse
       /\ \E caller \in Callers, titled \in BOOLEAN, updated \in BOOLEAN :
              UpdateAssistant(caller, titled, updated)
    \/ /\ response = NoResponse
       /\ \E caller \in Callers, deleted \in BOOLEAN : DeleteAssistant(caller, deleted)
    \/ Deliver

SpecAssist == Init /\ [][NextAssist]_vars

\* the steps of the polls of one request
PollStep ==
    \/ \E run_status \in RunStatuses : Poll(run_status)
    \/ \E exc \in PollErrors : PollRaises(exc)
    \/ PollTimeout
    \/ \E messages \in MessageLists : FetchAnswer(messages)

\* chat messages, one request at a time
NextChat ==
    \/ /\ response = NoResponse
       /\ \E caller \in Callers, pre \in Preambles : SendMessage(caller, pre)
    \/ \E run_status \in RunStatuses : Poll(run_status)
    \/ \E exc \in PollErrors : PollRaises(exc)
    \/ PollTimeout
    \/ \E messages \in MessageLists : FetchAnswer(messages)
    \/ /\ poll.pc = "idle"
       /\ Deliver

SpecChat == Init /\ [][NextChat]_vars

\* the event loop resumes the request after every sleep and every provider
\* call returns
SpecChatLive == SpecChat /\ WF_vars(PollStep)

\* the messages of WebSocket connections, one at a time
NextWs ==
    \/ /\ response = NoResponse
       /\ \E content \in Contents, limit_text \in HistoryLimits, completion \in Completions :
              WsMessage(content, limit_text, completion)
    \/ /\ response = NoResponse
       /\ WsInvalid
    \/ /\ response = NoResponse
       /\ WsDisconnect
    \/ /\ poll.pc = "idle"
       /\ Deliver

SpecWs == Init /\ [][NextWs]_vars

(***************************************************************************)
(* What the claims are stated over: the request the response in flight     *)
(* answers, and the document it was answered from (the table does not      *)
(* change while a response is in flight).                                  *)
(***************************************************************************)
DeniedDetails ==
    {"Not authenticated", "Could not validate credentials", "User not found",
     "Inactive user", "The user doesn't have enough privileges"}

\* the response in flight comes from the body of handler ep
Handled(ep) == response.ep = ep /\ response.detail \notin DeniedDetails

ListingEndpoints == {"list_commands", "list_options", "list_decorators", "list_workflows"}

\* the stored ADL text, when the record exists with a non-empty value
HasAdlText == ~AdlMissing(settings)
AdlText == settings[adl_setting(settings)].value

\* the stored ADL text parses
HasAdlDoc == HasAdlText /\ AdlText.enc = 0 /\ AdlText.kind = "yaml"
AdlDocument == AdlText.doc

\* s split at every "."
RECURSIVE DotSplitFrom(_, _, _)
DotSplitFrom(s, i, cur) ==
    IF i > Len(s) THEN <<cur>>
    ELSE IF s[i] = "." THEN <<cur>> \o DotSplitFrom(s, i + 1, <<>>)
    ELSE DotSplitFrom(s, i + 1, Append(cur, s[i]))

DotSplit(s) == DotSplitFrom(s, 1, <<>>)

\* looking keys up one after another: the value, or NotFound
RECURSIVE Traverse(_, _)
Traverse(v, keys) ==
    IF keys = <<>> THEN [found |-> TRUE, val |-> v]
    ELSE IF v.t = "map" /\ \E i \in 1..Len(v.items) : v.items[i].k = Head(keys)
    THEN Traverse(v.items[CHOOSE i \in 1..Len(v.items) : v.items[i].k = Head(keys)].v,
                  Tail(keys))
    ELSE [found |-> FALSE, val |-> Null]

\* the response in flight is the 404 of the navigator
IsPathNotFound ==
    response.status = 404 /\ response.detail = "Path not found in ADL configuration"

\* the response in flight is the 404 of a missing record
IsConfigNotFound ==
    /\ response.status = 404
    /\ response.detail \in {"ADL configuration not found",
                            "Assistant ADL configuration not found"}

\* the response in flight is the 500 of a YAML parse failure
IsParseFailure ==
    response.status = 500 /\ response.detail = "Error parsing ADL configuration"

\* the response in flight returns value v
Returns(v) == response.status = 200 /\ response.body = v

\* every "." of s stands directly after a "/"
DotsFollowSlash(s) ==
    \A i \in 1..Len(s) : s[i] = "." => (i > 1 /\ s[i - 1] = "/")

EndsWithSlash(s) == s # <<>> /\ s[Len(s)] = "/"

StartsWithSlash(s) == s # <<>> /\ s[1] = "/"

\* the ways to read path as P + "." + rest with P free of "/": the
\* positions of the dot
PrefixCuts(path) ==
    {i \in 1..Len(path) : path[i] = "." /\ ~Contains(SubSeq(path, 1, i - 1), "/")}

\* the mapping the ordinary-key path before position i of path leads to
MappingAt(path, i) == Traverse(AdlDocument, DotSplit(SubSeq(path, 1, i - 1)))

\* the part of path after position i
Rest(path, i) == SubSeq(path, i + 1, Len(path))

\* C1 as stated: below an ordinary-key path P, P.K resolves to the entry of
\* every key K that starts with "/", and P.K.c to the child c of the entry
C1_AsStated ==
    (Handled("get_adl_value") /\ HasAdlDoc) =>
        \A i \in PrefixCuts(response.path) :
            LET m == MappingAt(response.path, i)
                rest == Rest(response.path, i)
            IN  (m.found /\ m.val.t = "map") =>
                \A j \in 1..Len(m.val.items) :
                    LET K == m.val.items[j].k
                        entry == m.val.items[j].v
                    IN  StartsWithSlash(K) =>
                        /\ rest = K => Returns(entry)
                        /\ entry.t = "map" =>
                            \A n \in 1..Len(entry.items) :
                                rest = K \o <<".">> \o entry.items[n].k
                                    => Returns(entry.items[n].v)

\* C1 (amended): below an ordinary-key path P, for a key K that starts with
\* "/" and whose dots all stand directly after a "/", P.K resolves to the
\* whole entry; and when K does not end in "/" and the dots of the child key
\* c all stand directly after a "/", P.K.c resolves to the value of c
C1_SlashKeyBelowOrdinaryPath ==
    (Handled("get_adl_value") /\ HasAdlDoc) =>
        \A i \in PrefixCuts(response.path) :
            LET m == MappingAt(response.path, i)
                rest == Rest(response.path, i)
            IN  (m.found /\ m.val.t = "map") =>
                \A j \in 1..Len(m.val.items) :
                    LET K == m.val.items[j].k
                        entry == m.val.items[j].v
                    IN  (StartsWithSlash(K) /\ DotsFollowSlash(K)) =>
                        /\ rest = K => Returns(entry)
                        /\ (entry.t = "map" /\ ~EndsWithSlash(K)) =>
                            \A n \in 1..Len(entry.items) :
                                (/\ DotsFollowSlash(entry.items[n].k)
                                 /\ rest = K \o <<".">> \o entry.items[n].k)
                                    => Returns(entry.items[n].v)

\* a child of the entry "/a" below the key "a" was looked up and returned
C1_Witness ==
    /\ Handled("get_adl_value")
    /\ HasAdlDoc
    /\ response.path = <<"a", ".", "/", "a", ".", "a">>
    /\ response.status = 200
    /\ response.body.t # "map"

\* C2: for a path without "/", the lookup gives what splitting the path at
\* every "." and looking the keys up one after another gives: the same value,
\* or NotFound
C2_PlainPathIsDotSplitTraversal ==
    (Handled("get_adl_value") /\ HasAdlDoc /\ ~Contains(response.path, "/")) =>
        LET ref == Traverse(AdlDocument, DotSplit(response.path))
        IN  IF ref.found THEN Returns(ref.val) ELSE IsPathNotFound

\* a plain path of several segments, one of them empty, was resolved
C2_Witness ==
    /\ Handled("get_adl_value")
    /\ HasAdlDoc
    /\ ~Contains(response.path, "/")
    /\ Len(DotSplit(response.path)) = 3
    /\ response.path[1] = "."
    /\ response.status = 200

\* C3 as stated, for keys whose dots all stand after a "/" and that do not
\* end in "/": at the top of the document too, K.c resolves to the child c
\* (not empty) of the entry of a key K that contains "/"
C3_SlashKeyFirstSegment ==
    (Handled("get_adl_value") /\ HasAdlDoc /\ AdlDocument.t = "map") =>
        \A j \in 1..Len(AdlDocument.items) :
            LET K == AdlDocument.items[j].k
                entry == AdlDocument.items[j].v
            IN  (/\ Contains(K, "/")
                 /\ DotsFollowSlash(K)
                 /\ ~EndsWithSlash(K)
                 /\ entry.t = "map") =>
                \A n \in 1..Len(entry.items) :
                    (/\ entry.items[n].k # <<>>
                     /\ DotsFollowSlash(entry.items[n].k)
                     /\ response.path = K \o <<".">> \o entry.items[n].k)
                        => Returns(entry.items[n].v)

\* C4: the lookup returns a value exactly when every segment is found in a
\* mapping, and ends with the 404 of the navigator, no other error, when a
\* segment is missing or the current value is not a mapping
C4_NotFoundOrValue ==
    (Handled("get_adl_value") /\ HasAdlDoc) =>
        LET ref == Traverse(AdlDocument, Segments(response.path))
        IN  IF ref.found THEN Returns(ref.val) ELSE IsPathNotFound

\* a lookup ended 404 on a value that is not a mapping: the segment before
\* the last was found and holds a list or None
C4_Witness ==
    /\ Handled("get_adl_value")
    /\ HasAdlDoc
    /\ IsPathNotFound
    /\ LET segs == Segments(response.path)
           before == Traverse(AdlDocument, SubSeq(segs, 1, Len(segs) - 1))
       IN  Len(segs) >= 2 /\ before.found /\ before.val.t \in {"seq", "null"}

\* the path of the category a listing endpoint lists
CategoryPath(ep) ==
    IF ep = "list_commands" THEN PATH_commands
    ELSE IF ep = "list_options" THEN PATH_options
    ELSE IF ep = "list_decorators" THEN PATH_decorators
    ELSE PATH_workflows

\* the category's subtree in the stored document
Subtree(ep) == Traverse(AdlDocument, DotSplit(CategoryPath(ep)))

\* C5 as stated: when the document parses and the category's subtree path
\* does not exist, each of the four listings answers an empty collection
C5_MissingSubtreeIsEmpty ==
    \A ep \in ListingEndpoints :
        (Handled(ep) /\ HasAdlDoc /\ ~Subtree(ep).found) =>
            /\ response.status = 200
            /\ response.body \in {MapVal(<<>>), SeqVal(<<>>)}

\* C6: when the stored ADL text does not parse, the value lookup and the
\* four listings answer the 500 of a parse failure, for every path and format
C6_ParseFailureIs500 ==
    \A ep \in ListingEndpoints \cup {"get_adl_value"} :
        (Handled(ep) /\ HasAdlText /\ AdlText.kind = "bad") => IsParseFailure

\* the options listing answered a parse failure
C6_Witness ==
    /\ Handled("list_options")
    /\ HasAdlText
    /\ AdlText.kind = "bad"
    /\ response.format = "names"
    /\ response.status = 500

\* C7 as stated: every ADL endpoint answers the 404 of a missing
\* configuration when there is no 'Assistant ADL' record or its value is empty
C7_MissingConfigIs404 ==
    \A ep \in ListingEndpoints \cup {"get_adl_value", "download_adl_yaml"} :
        (Handled(ep) /\ AdlMissing(settings)) => IsConfigNotFound

\* C8 as stated: over a document that parses, the value lookup and the
\* listings end in success or in NotFound
C8_SuccessOrNotFound ==
    \A ep \in ListingEndpoints \cup {"get_adl_value"} :
        (Handled(ep) /\ HasAdlDoc) =>
            response.status = 200 \/ IsPathNotFound \/ IsConfigNotFound

\* C9: for commands, options and decorators, format=names over a category
\* that is a mapping returns the mapping's keys, each once, and nothing else
C9_NamesAreTheKeys ==
    \A ep \in {"list_commands", "list_options", "list_decorators"} :
        (/\ Handled(ep)
         /\ HasAdlDoc
         /\ response.format = "names"
         /\ Subtree(ep).found
         /\ Subtree(ep).val.t = "map") =>
            LET keys == MapKeys(Subtree(ep).val)
                names == response.body.items
            IN  /\ response.status = 200
                /\ response.body.t = "seq"
                /\ Len(names) = Len(keys)
                /\ \A i \in 1..Len(keys) :
                      Cardinality({n \in 1..Len(names) : names[n] = StrVal(keys[i])}) = 1
                /\ \A n \in 1..Len(names) :
                      \E i \in 1..Len(keys) : names[n] = StrVal(keys[i])

\* the names of a commands mapping of two entries were returned
C9_Witness ==
    /\ Handled("list_commands")
    /\ HasAdlDoc
    /\ response.format = "names"
    /\ response.status = 200
    /\ Subtree("list_commands").found
    /\ Subtree("list_commands").val.t = "map"
    /\ Len(response.body.items) = 2

\* the keys a simple projection keeps of an entry
SimpleKeys(ep) ==
    IF ep = "list_commands" THEN {K_display_name, K_description} ELSE {K_description}

\* C10 as stated: over a category mapping whose entries are mappings,
\* format=simple succeeds with the same keys, each value holding only the
\* display name and the description (options, decorators: the description)
C10_SimpleKeepsEveryEntry ==
    \A ep \in {"list_commands", "list_options", "list_decorators"} :
        (/\ Handled(ep)
         /\ HasAdlDoc
         /\ response.format = "simple"
         /\ Subtree(ep).found
         /\ Subtree(ep).val.t = "map"
         /\ \A i \in 1..Len(Subtree(ep).val.items) :
               Subtree(ep).val.items[i].v.t = "map") =>
            /\ response.status = 200
            /\ response.body.t = "map"
            /\ MapKeys(response.body) = MapKeys(Subtree(ep).val)
            /\ \A i \in 1..Len(response.body.items) :
                  LET out == response.body.items[i].v
                      entry == Subtree(ep).val.items[i].v
                  IN  /\ out.t = "map"
                      /\ {out.items[n].k : n \in 1..Len(out.items)} \subseteq SimpleKeys(ep)
                      /\ \A n \in 1..Len(out.items) :
                            HasKey(entry, out.items[n].k) =>
                                out.items[n].v = MapGet(entry, out.items[n].k)

\* the workflows subtree of the stored document
Workflows == Subtree("list_workflows")

\* the response in flight lists the workflows of a stored mapping
WorkflowsOfMapping ==
    /\ Handled("list_workflows")
    /\ HasAdlDoc
    /\ Workflows.found
    /\ Workflows.val.t = "map"

\* the value entry holds under key, or the fallback when it holds none
FieldOr(entry, key, fallback) ==
    IF entry.t = "map" /\ HasKey(entry, key) THEN MapGet(entry, key) ELSE fallback

\* C11 as stated: a workflows mapping of n keys is listed as n records in key
\* order (n display names with format=names), a record taking the mapping key
\* for a missing display_name and 'No description available' for a missing
\* description
C11_MappingBecomesRecords ==
    WorkflowsOfMapping =>
        LET items == Workflows.val.items
            out == response.body.items
        IN  /\ response.status = 200
            /\ response.body.t = "seq"
            /\ Len(out) = Len(items)
            /\ response.format # "names" =>
                  \A i \in 1..Len(items) :
                      /\ out[i].t = "map"
                      /\ HasKey(out[i], K_display_name)
                      /\ MapGet(out[i], K_display_name)
                            = FieldOr(items[i].v, K_display_name, StrVal(items[i].k))
                      /\ HasKey(out[i], K_description)
                      /\ MapGet(out[i], K_description)
                            = FieldOr(items[i].v, K_description, StrVal(S_no_description))

\* C12 as stated: for workflows stored as a mapping, every record of a
\* format=full or format=simple listing carries the workflow's key as its id
C12_RecordIdIsTheKey ==
    (WorkflowsOfMapping /\ response.status = 200 /\ response.format # "names") =>
        LET items == Workflows.val.items
            out == response.body.items
        IN  \A i \in 1..Len(out) :
                /\ i <= Len(items)
                /\ HasKey(out[i], K_id)
                /\ MapGet(out[i], K_id) = StrVal(items[i].k)

\* a caller the dependencies of the listings let through
ActiveUser == [token |-> "valid", exists |-> TRUE, is_active |-> TRUE, is_admin |-> FALSE]

\* C13 as stated: the i-th element of a format=names listing of the workflows
\* is the display_name that format=simple and format=full report for the
\* i-th workflow of the same document
C13_NamesAreTheDisplayNames ==
    (/\ Handled("list_workflows")
     /\ HasAdlDoc
     /\ response.format = "names"
     /\ response.status = 200) =>
        \A other \in {"simple", "full"} :
            LET listed == list_workflows(settings, ActiveUser, other)
                names == response.body.items
            IN  /\ listed.status = 200
                /\ Len(listed.body.items) = Len(names)
                /\ \A i \in 1..Len(names) :
                      names[i] = MapGet(listed.body.items[i], K_display_name)

\* C14: a workflows subtree that is a scalar or null is listed as the empty
\* list, in every format
C14_ScalarWorkflowsAreEmpty ==
    (/\ Handled("list_workflows")
     /\ HasAdlDoc
     /\ Workflows.found
     /\ Workflows.val.t \in {"str", "null"}) =>
        Returns(SeqVal(<<>>))

\* the workflows of a document that holds a scalar there were listed
C14_Witness ==
    /\ Handled("list_workflows")
    /\ HasAdlDoc
    /\ Workflows.found
    /\ Workflows.val.t = "str"
    /\ response.format = "simple"
    /\ response.body = SeqVal(<<>>)

\* the response in flight is a served download
Downloaded == Handled("download_adl_yaml") /\ response.status = 200

\* C15: the download carries the stored ADL text unchanged, and every path
\* the navigator resolves on the stored document resolves to the same value
\* on the document parsed from the downloaded text
C15_DownloadRoundTrip ==
    Downloaded =>
        /\ response.content = AdlText
        /\ safe_load(AdlText).ok =>
              /\ safe_load(response.content).ok
              /\ \A path \in NavPaths :
                    get_value_from_path(safe_load(AdlText).val, path).ok =>
                        get_value_from_path(safe_load(response.content).val, path)
                            = get_value_from_path(safe_load(AdlText).val, path)

\* a document in which a path of two segments resolves was downloaded
C15_Witness ==
    /\ Downloaded
    /\ HasAdlDoc
    /\ \E path \in NavPaths :
          /\ Len(Segments(path)) = 2
          /\ get_value_from_path(safe_load(response.content).val, path).ok

\* a caller every dependency lets through
Administrator == [token |-> "valid", exists |-> TRUE, is_active |-> TRUE, is_admin |-> TRUE]

\* the table without the rows that hold the key 'Assistant ADL' under a
\* category other than 'System'
FixedPairRows(rows) ==
    LET Kept(row) == row.key # ADL_KEY \/ row.category = ADL_CATEGORY
    IN  SelectSeq(rows, Kept)

\* a row holds the key 'Assistant ADL' under another category
HasStrayRecord ==
    \E i \in AdlRows(settings) : settings[i].category # ADL_CATEGORY

\* the answer of endpoint ep to the request of the response in flight, over
\* the table rows
AnswerOver(ep, rows) ==
    IF ep = "get_adl_value" THEN get_adl_value(rows, Administrator, response.path)
    ELSE IF ep = "list_commands" THEN list_commands(rows, Administrator, response.format)
    ELSE IF ep = "list_options" THEN list_options(rows, Administrator, response.format)
    ELSE IF ep = "list_decorators" THEN list_decorators(rows, Administrator, response.format)
    ELSE IF ep = "list_workflows" THEN list_workflows(rows, Administrator, response.format)
    ELSE download_adl_yaml(rows, Administrator)

AdlEndpoints == ListingEndpoints \cup {"get_adl_value", "download_adl_yaml"}

\* C16 as stated: every ADL endpoint answers from the record filed under
\* category 'System' and key 'Assistant ADL'; a record with that key under
\* another category has no part in the answer
C16_OtherCategoryIsNeverTheDocument ==
    \A ep \in AdlEndpoints :
        (Handled(ep) /\ HasStrayRecord) =>
            response = AnswerOver(ep, FixedPairRows(settings))

C18_ReadsChangeNothing ==
    [][response'.ep \in AdlEndpoints =>
          /\ settings' = settings
          /\ ~AdlMissing(settings) =>
                /\ ~AdlMissing(settings')
                /\ safe_load(settings'[adl_setting(settings')].value) = safe_load(AdlText)]_vars

\* the workflows of a stored mapping were listed as the converted sequence,
\* and the stored subtree is the mapping still
C18_Witness ==
    /\ WorkflowsOfMapping
    /\ response.status = 200
    /\ response.format = "full"
    /\ response.body.t = "seq"
    /\ Len(response.body.items) > 0
    /\ Workflows.val.t = "map"

\* C19 as stated: a listing request whose format is none of full, simple and
\* names is not answered with a projection of the category
C19_OnlyTheThreeFormats ==
    \A ep \in ListingEndpoints :
        (Handled(ep) /\ response.format \notin {"full", "simple", "names"}) =>
            response.status # 200

\* C20 as stated: once reset_password has succeeded with a token, a further
\* reset_password call with that token is rejected with 400 'Invalid or
\* expired token' and leaves the password as it is
C20_UsedTokenIsRejected ==
    (response.ep = "reset_password" /\ response.status = 200) =>
        \A password \in Passwords :
            /\ reset_password(users, now, response.token, password).status = 400
            /\ reset_password(users, now, response.token, password).detail
                  = "Invalid or expired token"
            /\ reset_password_users(users, now, response.token, password) = users

\* the users tables a password reset can be asked of: the present one, the
\* empty one, and the present one with every account deactivated
OtherUsers ==
    {users, <<>>, [i \in 1..Len(users) |-> [users[i] EXCEPT !.is_active = FALSE]]}

\* C21: the answer to a password reset request is the one success message,
\* the same whether the address belongs to no user, an inactive or an active
\* one, and whether the mails are accepted or fail
C21_ResetRequestRevealsNothing ==
    response.ep = "request_password_reset" =>
        /\ response.status = 200
        /\ response.detail
              = "If the email exists in our system, a password reset link has been sent."
        /\ \A rows \in OtherUsers, sent \in BOOLEAN, notified \in BOOLEAN :
              request_password_reset(rows, response.email, sent, notified) = response

\* a reset was asked for an active user and the mail to the user failed: no
\* link of this hour is in the mailbox
C21_Witness ==
    /\ response.ep = "request_password_reset"
    /\ get_by_email(users, response.email) > 0
    /\ users[get_by_email(users, response.email)].is_active
    /\ now = 0
    /\ \A t \in mailbox : t.sub # response.email
    /\ Cardinality(mailbox) = 1

\* the General/registration_open record exists and reads 'true' in any case
RegistrationIsOpen ==
    \E i \in 1..Len(settings) :
        /\ settings[i].category = "General"
        /\ settings[i].key = "registration_open"
        /\ settings[i].value.kind = "yaml"
        /\ settings[i].value.doc.t = "str"
        /\ Lower(settings[i].value.doc.s) = S_true

\* a user holds the address
Registered(email) == \E i \in 1..Len(users) : users[i].email = email

Waiting == poll.pc \in {"polling", "completed"}

\* the response in flight ends a request whose run was created
Waited == response.ep = "send_message" /\ poll.attempts > 0

\* C23: the wait of send_message ends; the run is polled at most 60 times;
\* the answer is returned only after a poll that reported 'completed'; a poll
\* that reports 'failed', 'cancelled' or 'expired' ends the request with 500
\* at once; 60 polls without a terminal status end it with the timeout error
C23_PollingTerminates ==
    /\ [](poll.attempts <= 60)
    /\ []((response.ep = "send_message" /\ response.status = 200) =>
             poll.status = "completed")
    /\ [](poll.status \in TerminalFailures =>
             (poll.pc = "idle" /\ (response = NoResponse \/ (Waited /\ response.status = 500))))
    /\ []((Waited /\ poll.status \in {"queued", "in_progress", "requires_action"}) =>
             (poll.attempts = 60 /\ response.status = 504
              /\ response.detail = "Assistant response timeout"))
    /\ (Waiting ~> ~Waiting)

\* a request ended with the timeout after its sixtieth poll
C23_Witness ==
    /\ response.ep = "send_message"
    /\ response.status = 504
    /\ poll.attempts = 60
    /\ poll.status = "in_progress"

\* the positions of the dots of path that no '/' stands directly before
Cuts(path) == {i \in 1..Len(path) : path[i] = "." /\ (i = 1 \/ path[i - 1] # "/")}

\* the j-th of those positions, 0 before the first and Len(path) + 1 after
\* the last
Cut(path, j) ==
    IF j = 0 THEN 0
    ELSE IF j > Cardinality(Cuts(path)) THEN Len(path) + 1
    ELSE CHOOSE p \in Cuts(path) : Cardinality({q \in Cuts(path) : q < p}) = j - 1

\* the pieces of path between those positions
Tokens(path) ==
    [j \in 1..(Cardinality(Cuts(path)) + 1) |->
        SubSeq(path, Cut(path, j - 1) + 1, Cut(path, j) - 1)]

HasSlash(s) == \E i \in 1..Len(s) : s[i] = "/"

RECURSIVE JoinDots(_)
\* ".".join(segs)
JoinDots(segs) ==
    IF Len(segs) = 0 THEN <<>>
    ELSE IF Len(segs) = 1 THEN segs[1]
    ELSE segs[1] \o <<".">> \o JoinDots(Tail(segs))

\* C24: the segments of a path are its pieces between the dots that no '/'
\* precedes, unless the first piece holds a '/', when the whole path is the
\* one segment; a later piece that holds a '/' stays a segment of its own;
\* and the segments joined with '.' are the path
C24_SegmentsAreTheTokens ==
    Handled("get_adl_value") =>
        LET path == response.path
        IN  /\ Segments(path) = IF HasSlash(Tokens(path)[1]) THEN <<path>>
                                ELSE Tokens(path)
            /\ JoinDots(Segments(path)) = path

\* a lookup whose path holds a piece with '/' after an ordinary first piece
\* and before another piece
C24_Witness ==
    /\ Handled("get_adl_value")
    /\ Len(Tokens(response.path)) = 3
    /\ ~HasSlash(Tokens(response.path)[1])
    /\ HasSlash(Tokens(response.path)[2])
    /\ Segments(response.path)[2] = Tokens(response.path)[2]

\* C25: every record of a workflows listing in format=full or format=simple
\* holds id, display_name and description, and sequence too in full,
\* whichever of them the stored entries lack
C25_RecordsHaveTheirFields ==
    (/\ Handled("list_workflows")
     /\ response.status = 200
     /\ response.format \in {"full", "simple"}) =>
        /\ response.body.t = "seq"
        /\ \A i \in 1..Len(response.body.items) :
              LET record == response.body.items[i]
              IN  /\ record.t = "map"
                  /\ HasKey(record, K_id)
                  /\ HasKey(record, K_display_name)
                  /\ HasKey(record, K_description)
                  /\ response.format = "full" => HasKey(record, K_sequence)

\* a sequence whose first workflow is stored without any field was listed in
\* full
C25_Witness ==
    /\ Handled("list_workflows")
    /\ response.status = 200
    /\ response.format = "full"
    /\ HasAdlDoc
    /\ Workflows.found
    /\ Workflows.val.t = "seq"
    /\ Len(Workflows.val.items) > 0
    /\ Workflows.val.items[1] = E_empty
    /\ Len(response.body.items) = Len(Workflows.val.items)

(***************************************************************************)
(* C26.  On the WebSocket chat the provider is called with the system      *)
(* prompt followed by at most max_history_messages entries of the          *)
(* connection's history, the last of them the message just received, for   *)
(* every non-negative value of the setting and after any earlier messages  *)
(* and failed requests.                                                    *)
(***************************************************************************)
\* the message in flight reached the provider call
Forwarded ==
    /\ response # NoResponse
    /\ response.ep = "websocket_endpoint"
    /\ response.messages # <<>>

\* the entries of the history among the messages of the call
ForwardedHistory == Tail(response.messages)

\* the history as it was when the provider was called
HistoryAtCall ==
    IF response.type = "complete"
    THEN SubSeq(message_history, 1, Len(message_history) - 1)
    ELSE message_history

IsSuffix(xs, ys) ==
    /\ Len(xs) <= Len(ys)
    /\ xs = SubSeq(ys, Len(ys) - Len(xs) + 1, Len(ys))

C26_AtMostTheLimit ==
    Forwarded =>
        /\ Head(response.messages).role = "system"
        /\ IsSuffix(ForwardedHistory, HistoryAtCall)
        /\ Len(ForwardedHistory) <= py_int(response.limit).val
        /\ ForwardedHistory # <<>> =>
               ForwardedHistory[Len(ForwardedHistory)] = Message("user", response.content)

\* with the limit at 1 and more, the bound holds
C26_PositiveLimits ==
    (Forwarded /\ py_int(response.limit).val >= 1) =>
        /\ Head(response.messages).role = "system"
        /\ IsSuffix(ForwardedHistory, HistoryAtCall)
        /\ Len(ForwardedHistory) <= py_int(response.limit).val
        /\ ForwardedHistory[Len(ForwardedHistory)] = Message("user", response.content)

\* the limit is 0 and the whole history of three messages was forwarded
C26_ZeroForwardsAll ==
    /\ Forwarded
    /\ response.limit = "0"
    /\ Len(ForwardedHistory) = 3

(***************************************************************************)
(* C27.  When the 'Assistant ADL' record has a non-empty value the         *)
(* download succeeds with that value as body and with the                  *)
(* Content-Disposition and no-cache headers set, whether or not the text   *)
(* parses as YAML; the file name is 'assistant.yaml' when no title can be  *)
(* extracted from the document.                                            *)
(***************************************************************************)
\* the value v holds a mapping under key
HoldsMapping(v, key) == v.t = "map" /\ HasKey(v, key) /\ MapGet(v, key).t = "map"

\* the stored text parses to a document that holds a title, other than
\* None, at metadata.description.title
HasTitle ==
    /\ HasAdlDoc
    /\ HoldsMapping(AdlDocument, K_metadata)
    /\ HoldsMapping(MapGet(AdlDocument, K_metadata), K_description)
    /\ HasKey(MapGet(MapGet(AdlDocument, K_metadata), K_description), K_title)
    /\ MapGet(MapGet(MapGet(AdlDocument, K_metadata), K_description), K_title).t
           \in {"str", "seq"}

C27_DownloadOfAnyText ==
    (Handled("download_adl_yaml") /\ HasAdlText) =>
        /\ response.status = 200
        /\ response.content = AdlText
        /\ response.nocache
        /\ Len(response.filename) >= Len(S_yaml_suffix)
        /\ ~HasTitle => response.filename = S_assistant \o S_yaml_suffix

\* the title of the stored document, "" when it has none or one that is no
\* text
StoredTitle ==
    IF HasTitle
       /\ MapGet(MapGet(MapGet(AdlDocument, K_metadata), K_description), K_title).t = "str"
    THEN MapGet(MapGet(MapGet(AdlDocument, K_metadata), K_description), K_title).s
    ELSE <<>>

\* the download of a text whose title is within Latin-1 goes as C27 says
C27_Latin1Titles ==
    (Handled("download_adl_yaml") /\ HasAdlText /\ Latin1(StoredTitle)) =>
        /\ response.status = 200
        /\ response.content = AdlText
        /\ response.nocache
        /\ Len(response.filename) >= Len(S_yaml_suffix)
        /\ ~HasTitle => response.filename = S_assistant \o S_yaml_suffix

(***************************************************************************)
(* C28.  At most one user becomes admin and approved through registration: *)
(* CRUDUser.create makes a user admin and approved exactly when the users  *)
(* table is empty at creation, also when two registrations run             *)
(* concurrently against an empty table.                                    *)
(***************************************************************************)
\* rows are only ever appended, so the i-th row was created on a table of
\* i - 1 rows
C28_OnlyTheFirstIsAdmin ==
    /\ \A i \in 1..Len(users) :
          /\ users[i].is_admin = (i = 1)
          /\ users[i].is_approved = (i = 1)
    /\ Cardinality({i \in 1..Len(users) : users[i].is_admin}) <= 1

(***************************************************************************)
(* C29.  After any sequence of create_setting and update_setting calls a   *)
(* setting whose is_encrypted flag is true holds an empty value or one     *)
(* that decrypt_setting accepts, and a setting whose flag is false holds   *)
(* the plain text it was last given, also after updates that change the    *)
(* flag.                                                                   *)
(***************************************************************************)
C29_FlagMatchesValue ==
    \A i \in 1..Len(settings) :
        IF settings[i].is_encrypted
        THEN ~Truthy(settings[i].value) \/ decrypt_setting(settings[i].value).ok
        ELSE settings[i].value \in PlainTexts \cup {DefaultSettings[1].value}
                \cup {u.value : u \in RegistrationUpdates}

\* while no update names the flag, the flag and the value agree
C29_FlagUnchanged ==
    [][(\A i \in 1..Len(settings) : i <= Len(settings') =>
            settings'[i].is_encrypted = settings[i].is_encrypted)
        => (C29_FlagMatchesValue => C29_FlagMatchesValue')]_vars

(***************************************************************************)
(* C30.  After startup the stored settings change only through requests    *)
(* made by an authenticated, active admin user: no request without such a  *)
(* user creates, updates or deletes a settings record, the assistant       *)
(* create, update and delete routes included.                              *)
(***************************************************************************)
Admins == {caller \in Callers : get_current_active_superuser(caller) = AuthOk}

AssistantEndpoints == {"create_assistant", "update_assistant", "delete_assistant"}

\* the step is a request of caller to a settings route or an assistant route
RequestOf(caller) ==
    \/ \E setting_in \in OpenAISettings : CreateSetting(caller, setting_in)
    \/ \E id \in 1..Len(settings) : UpdateSetting(caller, id, AssistantSetting("", EmptyText))
    \/ /\ response'.ep \in AssistantEndpoints
       /\ response'.caller = caller

C30_OnlyAdminsChangeSettings ==
    [][settings' # settings => \E caller \in Admins : RequestOf(caller)]_vars

\* the settings routes and the delete route change the table for admins only
C30_GuardedRoutes ==
    [][(settings' # settings /\ response'.ep \notin {"create_assistant", "update_assistant"})
          => \E caller \in Admins : RequestOf(caller)]_vars

====
